---- MODULE Spec2Model ----
(***************************************************************************)
(* A model of cocojson's prediction-evaluation engine                      *)
(* (src/cocojson/tools/compare_predictions.py).                            *)
(*                                                                         *)
(* Conventions.                                                            *)
(*  - A Python dict is a TLA+ record; an optional key (a prediction's      *)
(*    'score') is a field that is present or absent, and dict.get(k, d)    *)
(*    is Get(a, k, d).                                                     *)
(*  - A Python list is a sequence. Python positions start at 0, the        *)
(*    model's at 1.                                                        *)
(*  - A reference to a list element (Python object identity) is the        *)
(*    record [pos, annot]: the element's position in its list together     *)
(*    with its value. Value equality (list.index, ==) reads annot only.    *)
(*  - calculate_iou returns the float intersection / union; the model      *)
(*    keeps the exact fraction [num, den] (0.0 is 0/1) and compares it     *)
(*    with a threshold by cross-multiplication. Thresholds and scores are  *)
(*    counted in tenths (0.3 is 3, 0.4 is 4): for the integer boxes and    *)
(*    the one-decimal scores of the model the float comparison and the     *)
(*    exact one agree.                                                     *)
(***************************************************************************)
EXTENDS Integers, Sequences, FiniteSets, TLC

VARIABLES
    pc,               \* control position of the modelled run
    gt_annots,        \* find_matching_annotations: argument gt_annots
    pred_annots,      \* find_matching_annotations: argument pred_annots
    iou_arg,          \* find_matching_annotations: argument iou_threshold (tenths)
    matched_pairs,    \* find_matching_annotations: returned matched_pairs
    unmatched_gt,     \* find_matching_annotations: returned unmatched_gt
    unmatched_pred,   \* find_matching_annotations: returned unmatched_pred
    gt_data,          \* analyze_predictions: gt_data['annotations']
    pred_data,        \* analyze_predictions: pred_data['annotations']
    gt_by_image,      \* analyze_predictions: gt_by_image
    pred_by_image,    \* analyze_predictions: pred_by_image
    todo,             \* analyze_predictions: image ids the loop has not visited yet
    high_score_false_positives,
    low_score_misses,
    poor_localization,
    low_confidence_matches,
    iou_box1,         \* calculate_iou: argument box1, corner form
    iou_box2,         \* calculate_iou: argument box2, corner form
    iou_forward,      \* calculate_iou(box1, box2)
    iou_backward,     \* calculate_iou(box2, box1)
    max_copy_num,     \* main: args.max_copy_num
    summary,          \* print_analysis_summary: the four counts it printed
    gt_images,        \* gt_data['images']
    pred_images,      \* pred_data['images']
    gt_meta,          \* gt_data's keys categories, info, licenses (those present)
    pred_meta,        \* pred_data's keys categories, info, licenses
    category_i,       \* position in "categories" of the category being processed
    img_todo,         \* copy_error_images: ids of the category not visited yet
    copied_count,     \* copy_error_images: copied_count
    total_copied,     \* copy_error_images: total_copied
    out_fs,           \* the tree under output_dir: path -> directory or file
    log,              \* the lines printed by copy_error_images
    events,           \* history: what happened to each image id visited
    gt_input,         \* the gt JSON file: "ok", or what is wrong with it
    pred_input,       \* the prediction JSON file: "ok", or what is wrong with it
    run_no,           \* 1 in the first materialization, 2 in its repetition
    first_tree,       \* history: out_fs at the end of the first materialization
    file_outcome,     \* images_dir: per source file, what copying and drawing it gives
    perm,             \* a permutation of the positions of pred_annots
    perm_matched_pairs,   \* find_matching_annotations on the permuted pred_annots
    perm_unmatched_gt,
    perm_unmatched_pred,
    coco_dicts,       \* merge_jsons: argument coco_dicts
    merged_dict,      \* merge_jsons: returned merged_dict
    coco_dict_a,      \* exclude_images: argument coco_dict_a
    coco_dict_b,      \* exclude_images: argument coco_dict_b
    out_dict,         \* exclude_images: returned dict
    id_images,        \* _assign_unique_ids_if_needed: argument images
    id_annots,        \* _assign_unique_ids_if_needed: argument annots
    id_cats,          \* _assign_unique_ids_if_needed: argument cats
    before_images,    \* history: images as they were at the call
    before_annots,    \* history: annots as they were at the call
    before_cats       \* history: cats as they were at the call

match_vars == <<gt_annots, pred_annots, iou_arg, matched_pairs, unmatched_gt,
                unmatched_pred>>
analysis_vars == <<gt_data, pred_data, gt_by_image, pred_by_image, todo,
                   high_score_false_positives, low_score_misses,
                   poor_localization, low_confidence_matches>>
iou_vars == <<iou_box1, iou_box2, iou_forward, iou_backward>>
main_vars == <<max_copy_num, summary, gt_images, pred_images, gt_meta, pred_meta,
               category_i, img_todo, copied_count, total_copied, out_fs, log,
               events>>
run_vars == <<gt_input, pred_input, run_no, first_tree, file_outcome>>
perm_vars == <<perm, perm_matched_pairs, perm_unmatched_gt, perm_unmatched_pred>>
merge_vars == <<coco_dicts, merged_dict>>
exclude_vars == <<coco_dict_a, coco_dict_b, out_dict>>
assign_vars == <<id_images, id_annots, id_cats, before_images, before_annots,
                 before_cats>>
tool_vars == <<perm_vars, merge_vars, exclude_vars, assign_vars>>
extra_vars == <<run_vars, tool_vars>>
other_vars == <<iou_vars, main_vars, extra_vars>>
vars == <<pc, match_vars, analysis_vars, other_vars>>

(***************************************************************************)
(* Bounds of the model.                                                    *)
(***************************************************************************)
MaxGt == 2        \* longest gt list handed to the matcher
MaxPred == 2      \* longest prediction list handed to the matcher
MaxId == 2        \* annotation ids 1..MaxId
MaxAnn == 3       \* annotations of the two loaded JSON documents together
MaxCoord == 2     \* box corners handed to calculate_iou lie in 0..MaxCoord
MaxRec == 2       \* records of the four category lists together, and max_copy_num
MaxMergeId == 2   \* image and annotation ids 1..MaxMergeId in the dicts to merge
MaxExImages == 2  \* images of dict A in exclude_images, and their ids 1..MaxExImages
MaxExAnnots == 2  \* annotations of dict A in exclude_images
MaxAssignId == 2  \* ids 0..MaxAssignId in the lists of _assign_unique_ids_if_needed

SeqsUpTo(S, n) == UNION {[1..k -> S] : k \in 0..n}

\* The boxes of the model: squares of side 10 on the diagonal, which hold the
\* spec's examples [0,0,10,10], [2,2,10,10] and [20,20,10,10].
BoxAt(k) == <<k, k, 10, 10>>

(***************************************************************************)
(* Geometry.                                                               *)
(***************************************************************************)
Max(a, b) == IF a >= b THEN a ELSE b
Min(a, b) == IF a <= b THEN a ELSE b

Get(a, k, d) == IF k \in DOMAIN a THEN a[k] ELSE d

\* convert_bbox_format with the default format_type "xywh"
convert_bbox_format(bbox) ==
    <<bbox[1], bbox[2], bbox[1] + bbox[3], bbox[2] + bbox[4]>>

ZeroIou == [num |-> 0, den |-> 1]

\* "if x2 <= x1 or y2 <= y1" on the corners of the intersection rectangle
\* (no_intersection_both: the variant that asks for both)
no_intersection_both(x1, y1, x2, y2) == x2 <= x1 /\ y2 <= y1

no_intersection(x1, y1, x2, y2) == x2 <= x1 \/ y2 <= y1

\* "union = area1 + area2 - intersection"
\* (union_area_first: the variant that counts box1 twice;
\*  union_area_sum: the variant that keeps the intersection in)
union_area_first(area1, area2, intersection) == area1 + area1 - intersection

union_area_sum(area1, area2, intersection) == area1 + area2

union_area(area1, area2, intersection) == area1 + area2 - intersection

calculate_iou(box1, box2) ==
    LET x1 == Max(box1[1], box2[1])
        y1 == Max(box1[2], box2[2])
        x2 == Min(box1[3], box2[3])
        y2 == Min(box1[4], box2[4])
    IN  IF no_intersection(x1, y1, x2, y2)
        THEN ZeroIou
        ELSE LET intersection == (x2 - x1) * (y2 - y1)
                 area1 == (box1[3] - box1[1]) * (box1[4] - box1[2])
                 area2 == (box2[3] - box2[1]) * (box2[4] - box2[2])
                 union == union_area(area1, area2, intersection)
             IN  IF union <= 0
                 THEN ZeroIou
                 ELSE [num |-> intersection, den |-> union]

\* iou >= t and iou < t for a threshold t in tenths
IouGE(iou, t) == iou.num * 10 >= t * iou.den
IouLT(iou, t) == iou.num * 10 < t * iou.den

(***************************************************************************)
(* Per-image matcher: find_matching_annotations.                           *)
(***************************************************************************)
\* A reference to list[i]
Ref(list, i) == [pos |-> i, annot |-> list[i]]

Refs(list) == [i \in 1..Len(list) |-> Ref(list, i)]

\* list.index(x): the first position whose element equals x by value
\* (list_index_last: the variant that returns the last such position)
list_index_last(list, x) ==
    CHOOSE i \in 1..Len(list) :
        list[i] = x /\ \A j \in (i + 1)..Len(list) : list[j] # x

list_index(list, x) ==
    CHOOSE i \in 1..Len(list) :
        list[i] = x /\ \A j \in 1..(i - 1) : list[j] # x

\* matched_pairs = [], matched_gt_ids = set(), matched_pred_ids = set()
EmptyMatch ==
    [matched_pairs |-> <<>>, matched_gt_ids |-> {}, matched_pred_ids |-> {}]

\* "if i in matched_pred_ids: continue"
\* (never_claimed: the variant without the check)
never_claimed(i, st) == FALSE

already_claimed(i, st) == i \in st.matched_pred_ids

\* "if iou >= iou_threshold"
clears_threshold(iou, iou_threshold) == IouGE(iou, iou_threshold)

\* the three statements under "if iou >= iou_threshold"
record_match(gt_list, pred_list, g, i, iou, st) ==
    [matched_pairs |->
        Append(st.matched_pairs,
               [gt_annot |-> Ref(gt_list, g),
                pred_annot |-> Ref(pred_list, i),
                iou |-> iou]),
     matched_gt_ids |->
        st.matched_gt_ids \cup {list_index(gt_list, gt_list[g])},
     matched_pred_ids |-> st.matched_pred_ids \cup {i}]

\* one pass of the inner loop's body, for gt position g and prediction position i
inner_body(gt_list, pred_list, iou_threshold, g, i, st) ==
    IF already_claimed(i, st)
    THEN st
    ELSE LET gt_bbox == convert_bbox_format(gt_list[g].bbox)
             pred_bbox == convert_bbox_format(pred_list[i].bbox)
             iou == calculate_iou(gt_bbox, pred_bbox)
         IN  IF clears_threshold(iou, iou_threshold)
             THEN record_match(gt_list, pred_list, g, i, iou, st)
             ELSE st

\* "for i, pred_annot in enumerate(pred_annots)", from position i on
\* (inner_loop_break: the variant that leaves the loop at the first match)
RECURSIVE inner_loop_break(_, _, _, _, _, _)
inner_loop_break(gt_list, pred_list, iou_threshold, g, i, st) ==
    IF i > Len(pred_list)
    THEN st
    ELSE LET nxt == inner_body(gt_list, pred_list, iou_threshold, g, i, st)
         IN  IF nxt # st
             THEN nxt
             ELSE inner_loop_break(gt_list, pred_list, iou_threshold, g, i + 1, nxt)

RECURSIVE inner_loop(_, _, _, _, _, _)
inner_loop(gt_list, pred_list, iou_threshold, g, i, st) ==
    IF i > Len(pred_list)
    THEN st
    ELSE inner_loop(gt_list, pred_list, iou_threshold, g, i + 1,
                    inner_body(gt_list, pred_list, iou_threshold, g, i, st))

\* "for gt_annot in gt_annots", from position g on
\* (outer_loop_reversed: the variant that visits the gt list from its end)
RECURSIVE outer_loop_reversed(_, _, _, _, _)
outer_loop_reversed(gt_list, pred_list, iou_threshold, g, st) ==
    IF g > Len(gt_list)
    THEN st
    ELSE outer_loop_reversed(gt_list, pred_list, iou_threshold, g + 1,
             inner_loop(gt_list, pred_list, iou_threshold,
                        Len(gt_list) + 1 - g, 1, st))

RECURSIVE outer_loop(_, _, _, _, _)
outer_loop(gt_list, pred_list, iou_threshold, g, st) ==
    IF g > Len(gt_list)
    THEN st
    ELSE outer_loop(gt_list, pred_list, iou_threshold, g + 1,
                    inner_loop(gt_list, pred_list, iou_threshold, g, 1, st))

\* "[list[i] for i in range(len(list)) if i not in matched_ids]"
unmatched_of(list, matched_ids) ==
    SelectSeq(Refs(list), LAMBDA r : r.pos \notin matched_ids)

find_matching_annotations(gt_list, pred_list, iou_threshold) ==
    LET st == outer_loop(gt_list, pred_list, iou_threshold, 1, EmptyMatch)
    IN  [matched_pairs |-> st.matched_pairs,
         unmatched_gt |-> unmatched_of(gt_list, st.matched_gt_ids),
         unmatched_pred |-> unmatched_of(pred_list, st.matched_pred_ids)]

(***************************************************************************)
(* The inputs of the matcher's specification: the annotations of one      *)
(* image. Two gt annotations with the same id and bbox are equal by value. *)
(***************************************************************************)
MatchGtAnnots ==
    {[id |-> n, image_id |-> 1, bbox |-> BoxAt(k)] : n \in 1..MaxId, k \in {0, 2}}

MatchPredAnnots ==
    {[image_id |-> 1, bbox |-> BoxAt(k), score |-> 9] : k \in {0, 1, 2, 5, 20}}

\* iou_threshold values, in tenths
Thresholds == {0, 3, 5, 10}

AnalysisIdle ==
    /\ gt_data = <<>>
    /\ pred_data = <<>>
    /\ gt_by_image = <<>>
    /\ pred_by_image = <<>>
    /\ todo = {}
    /\ high_score_false_positives = <<>>
    /\ low_score_misses = <<>>
    /\ poor_localization = <<>>
    /\ low_confidence_matches = <<>>

IouIdle ==
    /\ iou_box1 = <<>>
    /\ iou_box2 = <<>>
    /\ iou_forward = ZeroIou
    /\ iou_backward = ZeroIou

MainIdle ==
    /\ max_copy_num = 0
    /\ summary = <<>>
    /\ gt_images = <<>>
    /\ pred_images = <<>>
    /\ gt_meta = <<>>
    /\ pred_meta = <<>>
    /\ category_i = 0
    /\ img_todo = {}
    /\ copied_count = 0
    /\ total_copied = 0
    /\ out_fs = <<>>
    /\ log = <<>>
    /\ events = <<>>

RunIdle ==
    /\ gt_input = "ok"
    /\ pred_input = "ok"
    /\ run_no = 1
    /\ first_tree = <<>>
    /\ file_outcome = <<>>

PermIdle ==
    /\ perm = <<>>
    /\ perm_matched_pairs = <<>>
    /\ perm_unmatched_gt = <<>>
    /\ perm_unmatched_pred = <<>>

MergeIdle ==
    /\ coco_dicts = <<>>
    /\ merged_dict = <<>>

ExcludeIdle ==
    /\ coco_dict_a = <<>>
    /\ coco_dict_b = <<>>
    /\ out_dict = <<>>

AssignIdle ==
    /\ id_images = <<>>
    /\ id_annots = <<>>
    /\ id_cats = <<>>
    /\ before_images = <<>>
    /\ before_annots = <<>>
    /\ before_cats = <<>>

ToolIdle == PermIdle /\ MergeIdle /\ ExcludeIdle /\ AssignIdle

ExtraIdle == RunIdle /\ ToolIdle

OthersIdle == IouIdle /\ MainIdle /\ ExtraIdle

MatchIdle ==
    /\ gt_annots = <<>>
    /\ pred_annots = <<>>
    /\ iou_arg = 0
    /\ matched_pairs = <<>>
    /\ unmatched_gt = <<>>
    /\ unmatched_pred = <<>>

InitMatch ==
    /\ pc = "call"
    /\ gt_annots \in SeqsUpTo(MatchGtAnnots, MaxGt)
    /\ pred_annots \in SeqsUpTo(MatchPredAnnots, MaxPred)
    /\ iou_arg \in Thresholds
    /\ matched_pairs = <<>>
    /\ unmatched_gt = <<>>
    /\ unmatched_pred = <<>>
    /\ AnalysisIdle
    /\ OthersIdle

\* one call of find_matching_annotations(gt_annots, pred_annots, iou_threshold)
CallFindMatching ==
    /\ pc = "call"
    /\ pc' = "return"
    /\ LET r == find_matching_annotations(gt_annots, pred_annots, iou_arg)
       IN  /\ matched_pairs' = r.matched_pairs
           /\ unmatched_gt' = r.unmatched_gt
           /\ unmatched_pred' = r.unmatched_pred
    /\ UNCHANGED <<gt_annots, pred_annots, iou_arg, analysis_vars, other_vars>>

NextMatch == CallFindMatching

SpecMatch == InitMatch /\ [][NextMatch]_vars

(***************************************************************************)
(* calculate_iou on its own: two corner-form boxes with integer corners,   *)
(* degenerate (zero width or height) and inverted (x2 < x1 or y2 < y1)     *)
(* boxes included, and the function applied both ways round.               *)
(***************************************************************************)
CornerBoxes == (0..MaxCoord) \X (0..MaxCoord) \X (0..MaxCoord) \X (0..MaxCoord)

InitIou ==
    /\ pc = "iou_call"
    /\ iou_box1 \in CornerBoxes
    /\ iou_box2 \in CornerBoxes
    /\ iou_forward = ZeroIou
    /\ iou_backward = ZeroIou
    /\ MatchIdle
    /\ AnalysisIdle
    /\ MainIdle
    /\ ExtraIdle

CallCalculateIou ==
    /\ pc = "iou_call"
    /\ pc' = "iou_return"
    /\ iou_forward' = calculate_iou(iou_box1, iou_box2)
    /\ iou_backward' = calculate_iou(iou_box2, iou_box1)
    /\ UNCHANGED <<iou_box1, iou_box2, match_vars, analysis_vars, main_vars,
                   extra_vars>>

NextIou == CallCalculateIou

SpecIou == InitIou /\ [][NextIou]_vars

IouReturned == pc = "iou_return"

\* width, height and area of a corner-form box, and the overlap of two
BoxWidth(b) == b[3] - b[1]
BoxHeight(b) == b[4] - b[2]
BoxArea(b) == BoxWidth(b) * BoxHeight(b)
OverlapWidth(a, b) == Min(a[3], b[3]) - Max(a[1], b[1])
OverlapHeight(a, b) == Min(a[4], b[4]) - Max(a[2], b[2])
EmptyIntersection(a, b) == OverlapWidth(a, b) <= 0 \/ OverlapHeight(a, b) <= 0
OverlapArea(a, b) ==
    IF EmptyIntersection(a, b) THEN 0 ELSE OverlapWidth(a, b) * OverlapHeight(a, b)

\* the values of two IoU results are equal
IouEq(a, b) == a.num * b.den = b.num * a.den

\* C12: calculate_iou(a, b) = calculate_iou(b, a) for all corner-form boxes with
\* corners in the coordinate set, degenerate and inverted boxes included.
C12_IouSymmetric ==
    IouReturned => iou_forward.den > 0 /\ iou_backward.den > 0
                   /\ IouEq(iou_forward, iou_backward)

\* two different boxes of different areas that overlap in part
C12_Witness ==
    /\ IouReturned
    /\ iou_box1 # iou_box2
    /\ BoxArea(iou_box1) # BoxArea(iou_box2)
    /\ iou_forward.num > 0
    /\ iou_forward.num < iou_forward.den

\* C13: calculate_iou is exactly 1 for two identical boxes of positive width and
\* height, and exactly 0 for two boxes whose intersection rectangle is empty,
\* boxes that touch along an edge or at a corner included.
C13_OneAndZero ==
    IouReturned =>
        /\ iou_forward.den > 0
        /\ (iou_box1 = iou_box2 /\ BoxWidth(iou_box1) > 0 /\ BoxHeight(iou_box1) > 0)
               => iou_forward.num = iou_forward.den
        /\ EmptyIntersection(iou_box1, iou_box2) => iou_forward.num = 0

\* two identical unit boxes
C13_Witness ==
    /\ IouReturned
    /\ iou_box1 = <<0, 0, 1, 1>>
    /\ iou_box2 = <<0, 0, 1, 1>>
    /\ iou_forward = [num |-> 1, den |-> 1]

\* C14: for every pair of integer boxes, zero-area and inverted ones included,
\* calculate_iou divides by a positive union only, its value lies in [0, 1], and
\* it is 0 whenever the intersection is empty or the union area is not positive.
C14_IouInUnitInterval ==
    IouReturned =>
        /\ iou_forward.den > 0
        /\ 0 <= iou_forward.num
        /\ iou_forward.num <= iou_forward.den
        /\ EmptyIntersection(iou_box1, iou_box2) => iou_forward.num = 0
        /\ (BoxArea(iou_box1) + BoxArea(iou_box2)
               - OverlapArea(iou_box1, iou_box2) <= 0) => iou_forward.num = 0

\* an inverted box against a proper one that covers it, with a union that is
\* not positive
C14_Witness ==
    /\ IouReturned
    /\ BoxWidth(iou_box1) < 0
    /\ BoxHeight(iou_box1) > 0
    /\ BoxArea(iou_box2) > 0
    /\ BoxArea(iou_box1) + BoxArea(iou_box2) <= 0
    /\ iou_forward.num = 0

(***************************************************************************)
(* Properties of find_matching_annotations, stated on a returned call.     *)
(***************************************************************************)
Returned == pc = "return"

GtPos == 1..Len(gt_annots)
PredPos == 1..Len(pred_annots)

\* the IoU of the gt at position g and the prediction at position i
PairIou(g, i) ==
    calculate_iou(convert_bbox_format(gt_annots[g].bbox),
                  convert_bbox_format(pred_annots[i].bbox))

Clears(g, i) == IouGE(PairIou(g, i), iou_arg)

\* g is the first gt in list order whose IoU with prediction i clears the threshold
FirstClearing(g, i) == Clears(g, i) /\ \A h \in 1..(g - 1) : ~Clears(h, i)

PairsOfPred(i) == {k \in DOMAIN matched_pairs : matched_pairs[k].pred_annot.pos = i}
PairsOfGt(g) == {k \in DOMAIN matched_pairs : matched_pairs[k].gt_annot.pos = g}
UnmatchedPredAt(i) == {k \in DOMAIN unmatched_pred : unmatched_pred[k].pos = i}

\* every reference the call returns points into the list it was taken from
RefsValid ==
    /\ \A k \in DOMAIN matched_pairs :
          /\ matched_pairs[k].gt_annot.pos \in GtPos
          /\ matched_pairs[k].gt_annot = Ref(gt_annots, matched_pairs[k].gt_annot.pos)
          /\ matched_pairs[k].pred_annot.pos \in PredPos
          /\ matched_pairs[k].pred_annot =
                 Ref(pred_annots, matched_pairs[k].pred_annot.pos)
    /\ \A k \in DOMAIN unmatched_pred :
          /\ unmatched_pred[k].pos \in PredPos
          /\ unmatched_pred[k] = Ref(pred_annots, unmatched_pred[k].pos)
    /\ \A k \in DOMAIN unmatched_gt :
          /\ unmatched_gt[k].pos \in GtPos
          /\ unmatched_gt[k] = Ref(gt_annots, unmatched_gt[k].pos)

\* C1: every prediction position is the pred of exactly one matched pair or is
\* once in unmatched_pred, never both and never twice; hence
\* len(matched_pairs) + len(unmatched_pred) = len(pred_list).
C1_PredPartition ==
    Returned =>
        /\ RefsValid
        /\ \A i \in PredPos :
              Cardinality(PairsOfPred(i)) + Cardinality(UnmatchedPredAt(i)) = 1
        /\ Len(matched_pairs) + Len(unmatched_pred) = Len(pred_annots)

\* a returned call with two predictions, one of which clears the threshold
\* against two gt entries and one of which is left unmatched
C1_Witness ==
    /\ Returned
    /\ Len(pred_annots) = 2
    /\ \E i \in PredPos : \E g, h \in GtPos :
          g # h /\ Clears(g, i) /\ Clears(h, i) /\ PairsOfPred(i) # {}
    /\ Len(unmatched_pred) = 1

\* C2: unmatched_gt is, in list order, exactly the gt positions that have no
\* matched pair.
C2_UnmatchedGtExact ==
    Returned =>
        unmatched_gt = SelectSeq(Refs(gt_annots), LAMBDA r : PairsOfGt(r.pos) = {})

\* a returned call whose gt list holds two annotations equal by value, with at
\* least one matched pair and at least one unmatched gt
C2_Witness ==
    /\ Returned
    /\ \E g, h \in GtPos : g # h /\ gt_annots[g] = gt_annots[h]
    /\ matched_pairs # <<>>
    /\ unmatched_gt # <<>>

\* C3: matched_pairs holds exactly the pairs (g, i) where g is the first gt in list
\* order whose IoU with prediction i is >= iou_threshold, each with that IoU, ordered
\* by gt position and then by prediction position; unmatched_pred holds, in list
\* order, exactly the predictions whose IoU is below the threshold against every gt.
C3_MatchedPairsExact ==
    Returned =>
        /\ RefsValid
        /\ \A k \in DOMAIN matched_pairs :
              LET p == matched_pairs[k]
              IN  /\ FirstClearing(p.gt_annot.pos, p.pred_annot.pos)
                  /\ p.iou = PairIou(p.gt_annot.pos, p.pred_annot.pos)
        /\ \A g \in GtPos : \A i \in PredPos :
              FirstClearing(g, i) =>
                  \E k \in DOMAIN matched_pairs :
                      /\ matched_pairs[k].gt_annot.pos = g
                      /\ matched_pairs[k].pred_annot.pos = i
        /\ \A k, l \in DOMAIN matched_pairs :
              k < l =>
                  \/ matched_pairs[k].gt_annot.pos < matched_pairs[l].gt_annot.pos
                  \/ /\ matched_pairs[k].gt_annot.pos = matched_pairs[l].gt_annot.pos
                     /\ matched_pairs[k].pred_annot.pos < matched_pairs[l].pred_annot.pos
        /\ unmatched_pred =
               SelectSeq(Refs(pred_annots),
                         LAMBDA r : \A g \in GtPos : ~Clears(g, r.pos))

\* a returned call in which one gt holds two pairs and a later gt is left unmatched
\* although its IoU with one of those predictions clears the threshold
C3_Witness ==
    /\ Returned
    /\ \E g \in GtPos :
          /\ Cardinality(PairsOfGt(g)) = 2
          /\ \E h \in GtPos : \E i \in PredPos :
                /\ g < h
                /\ Clears(h, i)
                /\ PairsOfGt(h) = {}
                /\ \E k \in DOMAIN unmatched_gt : unmatched_gt[k].pos = h

\* the matcher's outcome in terms of positions of the original gt list, when it is
\* run on the gt list in reversed order
Reverse(list) == [i \in 1..Len(list) |-> list[Len(list) + 1 - i]]

MatchedSet(r, n) ==
    {<<IF n = 0 THEN r.matched_pairs[k].gt_annot.pos
                ELSE n + 1 - r.matched_pairs[k].gt_annot.pos,
       r.matched_pairs[k].pred_annot.pos>> : k \in DOMAIN r.matched_pairs}

UnmatchedGtSet(r, n) ==
    {IF n = 0 THEN r.unmatched_gt[k].pos ELSE n + 1 - r.unmatched_gt[k].pos :
        k \in DOMAIN r.unmatched_gt}

\* C4: matching is first-fit by input order: no matched pair (g, i) has an earlier gt
\* that clears the threshold with i, whatever the IoU of later gt entries with i, and
\* a prediction that clears the threshold against some gt is paired.
C4_FirstFit ==
    Returned =>
        /\ \A k \in DOMAIN matched_pairs : \A h \in GtPos :
              Clears(h, matched_pairs[k].pred_annot.pos) =>
                  matched_pairs[k].gt_annot.pos <= h
        /\ \A i \in PredPos :
              (\E g \in GtPos : Clears(g, i)) => PairsOfPred(i) # {}

\* a returned call in which a prediction is paired with a gt although a later gt has
\* a strictly higher IoU with it, and for which the reversed gt list gives another set
\* of matched pairs and another unmatched_gt
C4_Witness ==
    /\ Returned
    /\ \E k \in DOMAIN matched_pairs : \E h \in GtPos :
          LET p == matched_pairs[k]
              better == PairIou(h, p.pred_annot.pos)
          IN  /\ p.gt_annot.pos < h
              /\ better.num * p.iou.den > p.iou.num * better.den
    /\ LET here == [matched_pairs |-> matched_pairs, unmatched_gt |-> unmatched_gt]
           there == find_matching_annotations(Reverse(gt_annots), pred_annots, iou_arg)
       IN  /\ MatchedSet(here, 0) # MatchedSet(there, Len(gt_annots))
           /\ UnmatchedGtSet(here, 0) # UnmatchedGtSet(there, Len(gt_annots))

(***************************************************************************)
(* Error classifier: analyze_predictions.                                  *)
(***************************************************************************)
\* the thresholds of analyze_predictions, in tenths
iou_threshold == 3
ideal_iou_threshold == 6
minimum_score_threshold == 4
false_positive_score_threshold == 4

\* the "by image" grouping loops: img_id -> annotations of that image, in list order
group_by_image(annotations) ==
    [img_id \in {annotations[k].image_id : k \in DOMAIN annotations} |->
        SelectSeq(annotations, LAMBDA a : a.image_id = img_id)]

\* by_image.get(img_id, [])
annots_of(by_image, img_id) ==
    IF img_id \in DOMAIN by_image THEN by_image[img_id] ELSE <<>>

\* "if not gt_annots and not pred_annots: continue"
\* (skip_image_either: the variant with "or")
skip_image_either(gt_list, pred_list) == gt_list = <<>> \/ pred_list = <<>>

skip_image(gt_list, pred_list) == gt_list = <<>> /\ pred_list = <<>>

\* pred_annot.get('score', 0)
\* (score_of_default_one: the variant with default 1.0)
score_of_default_one(annot) == Get(annot, "score", 10)

score_of(annot) == Get(annot, "score", 0)

\* "if score >= false_positive_score_threshold"
\* (is_false_positive_score_strict: the variant with ">")
is_false_positive_score_strict(score) == score > false_positive_score_threshold

is_false_positive_score(score) == score >= false_positive_score_threshold

\* "if iou < ideal_iou_threshold"
\* (is_poor_iou_inclusive: the variant with "<=")
is_poor_iou_inclusive(iou) == iou.num * 10 <= ideal_iou_threshold * iou.den

is_poor_iou(iou) == IouLT(iou, ideal_iou_threshold)

\* "if score < minimum_score_threshold"
\* (is_low_score_inclusive: the variant with "<=")
is_low_score_inclusive(score) == score <= minimum_score_threshold

is_low_score(score) == score < minimum_score_threshold

\* 1. the records appended to high_score_false_positives for one image
false_positives_of(img_id, unmatched) ==
    LET kept == SelectSeq(unmatched,
                          LAMBDA r : is_false_positive_score(score_of(r.annot)))
    IN  [k \in 1..Len(kept) |->
            [image_id |-> img_id, pred_annot |-> kept[k],
             score |-> score_of(kept[k].annot)]]

\* 2. the records appended to low_score_misses for one image
misses_of(img_id, unmatched) ==
    [k \in 1..Len(unmatched) |-> [image_id |-> img_id, gt_annot |-> unmatched[k]]]

\* the record both pair loops build
pair_record(img_id, p) ==
    [image_id |-> img_id, gt_annot |-> p.gt_annot, pred_annot |-> p.pred_annot,
     iou |-> p.iou, score |-> score_of(p.pred_annot.annot)]

\* 3. the records appended to poor_localization for one image
poor_localization_of(img_id, pairs) ==
    LET kept == SelectSeq(pairs, LAMBDA p : is_poor_iou(p.iou))
    IN  [k \in 1..Len(kept) |-> pair_record(img_id, kept[k])]

\* 4. the records appended to low_confidence_matches for one image
\* (low_confidence_of_exclusive: the variant that leaves out the pairs already
\* recorded in poor_localization)
low_confidence_of_exclusive(img_id, pairs) ==
    LET kept == SelectSeq(pairs,
                          LAMBDA p : /\ ~is_poor_iou(p.iou)
                                     /\ is_low_score(score_of(p.pred_annot.annot)))
    IN  [k \in 1..Len(kept) |-> pair_record(img_id, kept[k])]

low_confidence_of(img_id, pairs) ==
    LET kept == SelectSeq(pairs,
                          LAMBDA p : is_low_score(score_of(p.pred_annot.annot)))
    IN  [k \in 1..Len(kept) |-> pair_record(img_id, kept[k])]

(***************************************************************************)
(* The inputs of the classifier's specification: the annotation lists of   *)
(* the two loaded documents. Image 1 carries the boxes of the spec's       *)
(* examples and a prediction box [0,0,10,6], whose IoU with [0,0,10,10] is *)
(* exactly 0.6 and with [2,2,10,10] 0.25; image 2 carries one box. A       *)
(* prediction has a score of 0.3, 0.4 or 0.9, or no score field.           *)
(***************************************************************************)
AnalysisImageIds == {1, 2}

AnalysisGtAnnots ==
    {[id |-> 1, image_id |-> 1, bbox |-> BoxAt(k)] : k \in {0, 2}}
    \cup {[id |-> 1, image_id |-> 2, bbox |-> BoxAt(0)]}

AnalysisPredBoxes ==
    {<<1, BoxAt(0)>>, <<1, BoxAt(2)>>, <<1, BoxAt(20)>>, <<1, <<0, 0, 10, 6>> >>,
     <<2, BoxAt(0)>>}

AnalysisPredAnnots ==
    {[image_id |-> mb[1], bbox |-> mb[2], score |-> s] :
        mb \in AnalysisPredBoxes, s \in {3, 4, 9}}
    \cup {[image_id |-> mb[1], bbox |-> mb[2]] : mb \in AnalysisPredBoxes}

\* the state after load_json of both documents
Init ==
    /\ pc = "loaded"
    /\ gt_data \in SeqsUpTo(AnalysisGtAnnots, MaxAnn)
    /\ pred_data \in SeqsUpTo(AnalysisPredAnnots, MaxAnn - Len(gt_data))
    /\ gt_by_image = <<>>
    /\ pred_by_image = <<>>
    /\ todo = {}
    /\ high_score_false_positives = <<>>
    /\ low_score_misses = <<>>
    /\ poor_localization = <<>>
    /\ low_confidence_matches = <<>>
    /\ MatchIdle
    /\ OthersIdle

\* analyze_predictions up to its main loop: group the annotations by image id
GroupByImage ==
    /\ pc = "loaded"
    /\ pc' = "loop"
    /\ gt_by_image' = group_by_image(gt_data)
    /\ pred_by_image' = group_by_image(pred_data)
    /\ todo' = DOMAIN group_by_image(gt_data) \cup DOMAIN group_by_image(pred_data)
    /\ UNCHANGED <<gt_data, pred_data, high_score_false_positives, low_score_misses,
                   poor_localization, low_confidence_matches, match_vars, other_vars>>

\* one pass of "for img_id in set(gt_by_image.keys()) | set(pred_by_image.keys())":
\* the set's iteration order is not specified, so any unvisited id may come next
AnalyzeImage(img_id) ==
    /\ pc = "loop"
    /\ img_id \in todo
    /\ todo' = todo \ {img_id}
    /\ LET gt_list == annots_of(gt_by_image, img_id)
           pred_list == annots_of(pred_by_image, img_id)
           r == find_matching_annotations(gt_list, pred_list, iou_threshold)
       IN  IF skip_image(gt_list, pred_list)
           THEN UNCHANGED <<high_score_false_positives, low_score_misses,
                            poor_localization, low_confidence_matches>>
           ELSE /\ high_score_false_positives' =
                       high_score_false_positives
                           \o false_positives_of(img_id, r.unmatched_pred)
                /\ low_score_misses' =
                       low_score_misses \o misses_of(img_id, r.unmatched_gt)
                /\ poor_localization' =
                       poor_localization \o poor_localization_of(img_id, r.matched_pairs)
                /\ low_confidence_matches' =
                       low_confidence_matches
                           \o low_confidence_of(img_id, r.matched_pairs)
    /\ UNCHANGED <<pc, gt_data, pred_data, gt_by_image, pred_by_image, match_vars,
                   other_vars>>

\* the loop is over: analyze_predictions returns the four lists and both documents
ReturnAnalysis ==
    /\ pc = "loop"
    /\ todo = {}
    /\ pc' = "done"
    /\ UNCHANGED <<match_vars, analysis_vars, other_vars>>

Next ==
    \/ GroupByImage
    \/ \E img_id \in AnalysisImageIds : AnalyzeImage(img_id)
    \/ ReturnAnalysis

Spec == Init /\ [][Next]_vars

(***************************************************************************)
(* Properties of analyze_predictions, stated on its result in terms of the *)
(* two loaded documents.                                                   *)
(***************************************************************************)
Done == pc = "done"

AllImageIds ==
    {gt_data[k].image_id : k \in DOMAIN gt_data}
        \cup {pred_data[k].image_id : k \in DOMAIN pred_data}

\* the gt annotations and the predictions of image img, in document order
ImgGt(img) == SelectSeq(gt_data, LAMBDA a : a.image_id = img)
ImgPred(img) == SelectSeq(pred_data, LAMBDA a : a.image_id = img)

ImgIou(img, g, i) ==
    calculate_iou(convert_bbox_format(ImgGt(img)[g].bbox),
                  convert_bbox_format(ImgPred(img)[i].bbox))

\* IoU >= 0.3, IoU < 0.6
ImgClears(img, g, i) == ImgIou(img, g, i).num * 10 >= 3 * ImgIou(img, g, i).den
ImgPoor(img, g, i) == ImgIou(img, g, i).num * 10 < 6 * ImgIou(img, g, i).den

\* prediction i of image img is paired with gt g: g is the first gt of the image
\* whose IoU with i is >= 0.3
ImgMatched(img, g, i) ==
    ImgClears(img, g, i) /\ \A h \in 1..(g - 1) : ~ImgClears(img, h, i)

ImgPredUnmatched(img, i) == \A g \in 1..Len(ImgGt(img)) : ~ImgClears(img, g, i)
ImgGtUnmatched(img, g) == \A i \in 1..Len(ImgPred(img)) : ~ImgMatched(img, g, i)

HasScore(a) == "score" \in DOMAIN a

\* the records of image img in a category list, in list order
OfImage(list, img) == SelectSeq(list, LAMBDA r : r.image_id = img)

OnlyKnownImages(list) == \A k \in DOMAIN list : list[k].image_id \in AllImageIds

\* the matched pairs (g, i) of image img, by gt position and then prediction position
ImgPairs(img) ==
    SelectSeq([k \in 1..(Len(ImgGt(img)) * Len(ImgPred(img))) |->
                  [g |-> ((k - 1) \div Len(ImgPred(img))) + 1,
                   i |-> ((k - 1) % Len(ImgPred(img))) + 1]],
              LAMBDA p : ImgMatched(img, p.g, p.i))

\* the score prediction i of image img is classified with: its score field, or 0
\* when it has none
ImgScore(img, i) ==
    IF HasScore(ImgPred(img)[i]) THEN ImgPred(img)[i].score ELSE 0

\* the record of the matched pair p = (g, i) of image img
ImgPairRecord(img, p) ==
    [image_id |-> img,
     gt_annot |-> Ref(ImgGt(img), p.g),
     pred_annot |-> Ref(ImgPred(img), p.i),
     iou |-> ImgIou(img, p.g, p.i),
     score |-> ImgScore(img, p.i)]

\* C5: high_score_false_positives holds one record for exactly the unmatched
\* predictions whose score is >= 0.4, and nothing else.
C5_FalsePositivesExact ==
    Done =>
        /\ OnlyKnownImages(high_score_false_positives)
        /\ \A img \in AllImageIds :
              LET want == SelectSeq(Refs(ImgPred(img)),
                                    LAMBDA r : /\ ImgPredUnmatched(img, r.pos)
                                               /\ HasScore(r.annot)
                                               /\ r.annot.score >= 4)
              IN  OfImage(high_score_false_positives, img) =
                      [k \in 1..Len(want) |->
                          [image_id |-> img, pred_annot |-> want[k],
                           score |-> want[k].annot.score]]

\* the spec's example 2: gt [0,0,10,10] and a prediction [20,20,10,10] with a high
\* score (0.9) in one image; the prediction is recorded as a false positive and the
\* gt as a miss
C5_Witness ==
    /\ Done
    /\ \E k \in DOMAIN high_score_false_positives :
          /\ high_score_false_positives[k].pred_annot.annot.bbox = BoxAt(20)
          /\ high_score_false_positives[k].score = 9
          /\ \E l \in DOMAIN low_score_misses :
                /\ low_score_misses[l].image_id = high_score_false_positives[k].image_id
                /\ low_score_misses[l].gt_annot.annot.bbox = BoxAt(0)

\* C6: low_score_misses holds one record for every unmatched gt of every image and
\* nothing else, with no threshold; an image without predictions has every gt
\* recorded, and in an image without gt every prediction is unmatched (no pair
\* record, and a false-positive record exactly when its score is >= 0.4).
C6_MissesExact ==
    Done =>
        /\ OnlyKnownImages(low_score_misses)
        /\ \A img \in AllImageIds :
              /\ LET want == SelectSeq(Refs(ImgGt(img)),
                                       LAMBDA r : ImgGtUnmatched(img, r.pos))
                 IN  OfImage(low_score_misses, img) =
                         [k \in 1..Len(want) |->
                             [image_id |-> img, gt_annot |-> want[k]]]
              /\ ImgPred(img) = <<>> =>
                     Len(OfImage(low_score_misses, img)) = Len(ImgGt(img))
              /\ ImgGt(img) = <<>> =>
                     /\ OfImage(poor_localization, img) = <<>>
                     /\ OfImage(low_confidence_matches, img) = <<>>
                     /\ Len(OfImage(high_score_false_positives, img)) =
                            Cardinality({i \in 1..Len(ImgPred(img)) :
                                            /\ HasScore(ImgPred(img)[i])
                                            /\ ImgPred(img)[i].score >= 4})

\* one image with gt and no predictions, another with predictions and no gt
C6_Witness ==
    /\ Done
    /\ \E img, other \in AllImageIds :
          /\ ImgGt(img) # <<>> /\ ImgPred(img) = <<>>
          /\ OfImage(low_score_misses, img) # <<>>
          /\ ImgGt(other) = <<>> /\ ImgPred(other) # <<>>
          /\ OfImage(high_score_false_positives, other) # <<>>

\* C7: poor_localization holds one record for exactly the matched pairs whose IoU is
\* < 0.6, so every record has 0.3 <= iou < 0.6.
C7_PoorLocalizationExact ==
    Done =>
        /\ OnlyKnownImages(poor_localization)
        /\ \A img \in AllImageIds :
              LET want == SelectSeq(ImgPairs(img), LAMBDA p : ImgPoor(img, p.g, p.i))
              IN  OfImage(poor_localization, img) =
                      [k \in 1..Len(want) |-> ImgPairRecord(img, want[k])]
        /\ \A k \in DOMAIN poor_localization :
              /\ poor_localization[k].iou.num * 10 >= 3 * poor_localization[k].iou.den
              /\ poor_localization[k].iou.num * 10 < 6 * poor_localization[k].iou.den

\* the spec's example 3: the pair of IoU 64/136 with score 0.9 is in
\* poor_localization and not in low_confidence_matches, while a pair of IoU exactly
\* 0.6 in the same image is not in poor_localization
C7_Witness ==
    /\ Done
    /\ \E k \in DOMAIN poor_localization :
          /\ poor_localization[k].iou = [num |-> 64, den |-> 136]
          /\ poor_localization[k].score = 9
          /\ OfImage(low_confidence_matches, poor_localization[k].image_id) = <<>>
          /\ \E i \in 1..Len(ImgPred(poor_localization[k].image_id)) :
                /\ ImgMatched(poor_localization[k].image_id, 1, i)
                /\ ImgIou(poor_localization[k].image_id, 1, i) = [num |-> 60, den |-> 100]
    /\ Len(poor_localization) = 1

\* C8: low_confidence_matches holds one record for exactly the matched pairs whose
\* score is < 0.4 (0.4 itself is not recorded), whatever the pair's IoU.
C8_LowConfidenceExact ==
    Done =>
        /\ OnlyKnownImages(low_confidence_matches)
        /\ \A img \in AllImageIds :
              LET want == SelectSeq(ImgPairs(img),
                                    LAMBDA p : ImgScore(img, p.i) < 4)
              IN  OfImage(low_confidence_matches, img) =
                      [k \in 1..Len(want) |-> ImgPairRecord(img, want[k])]

\* a matched pair with score 0.3 and IoU 1 is recorded, one with score exactly 0.4
\* is not
C8_Witness ==
    /\ Done
    /\ Len(low_confidence_matches) = 1
    /\ low_confidence_matches[1].score = 3
    /\ low_confidence_matches[1].iou = [num |-> 100, den |-> 100]
    /\ \E img \in AllImageIds : \E k \in DOMAIN ImgPairs(img) :
          /\ HasScore(ImgPred(img)[ImgPairs(img)[k].i])
          /\ ImgPred(img)[ImgPairs(img)[k].i].score = 4

\* the records of a category list that refer to prediction i of image img
RecordsOfPred(list, img, i) ==
    {k \in DOMAIN list : list[k].image_id = img /\ list[k].pred_annot.pos = i}

\* C9: a prediction without a score field is classified with score 0: unmatched, it
\* is never in high_score_false_positives; matched, it is once in
\* low_confidence_matches, with score 0 (and the run reaches its end).
C9_MissingScoreIsZero ==
    Done =>
        \A img \in AllImageIds : \A i \in 1..Len(ImgPred(img)) :
            ~HasScore(ImgPred(img)[i]) =>
                /\ RecordsOfPred(high_score_false_positives, img, i) = {}
                /\ ~ImgPredUnmatched(img, i) =>
                      /\ Cardinality(RecordsOfPred(low_confidence_matches, img, i)) = 1
                      /\ \A k \in RecordsOfPred(low_confidence_matches, img, i) :
                            low_confidence_matches[k].score = 0
                /\ \A k \in RecordsOfPred(poor_localization, img, i) :
                      poor_localization[k].score = 0

\* two predictions without a score in one image, one matched and one unmatched
C9_Witness ==
    /\ Done
    /\ \E img \in AllImageIds : \E i, j \in 1..Len(ImgPred(img)) :
          /\ ~HasScore(ImgPred(img)[i]) /\ ~HasScore(ImgPred(img)[j])
          /\ ImgPredUnmatched(img, i)
          /\ ImgGt(img) # <<>>
          /\ ~ImgPredUnmatched(img, j)
          /\ RecordsOfPred(low_confidence_matches, img, j) # {}

\* the records of a category list for the pair (g, i) of image img
RecordsOfPair(list, img, g, i) ==
    {k \in DOMAIN list : /\ list[k].image_id = img
                         /\ list[k].gt_annot.pos = g
                         /\ list[k].pred_annot.pos = i}

\* C10: a matched pair is recorded in both poor_localization and
\* low_confidence_matches if and only if its IoU is < 0.6 and its score is < 0.4, and
\* then the two records are equal (same gt, pred, iou and score).
C10_BothListsIff ==
    Done =>
        \A img \in AllImageIds : \A k \in DOMAIN ImgPairs(img) :
            LET p == ImgPairs(img)[k]
                inPoor == RecordsOfPair(poor_localization, img, p.g, p.i)
                inLow == RecordsOfPair(low_confidence_matches, img, p.g, p.i)
            IN  /\ (inPoor # {} /\ inLow # {}) <=>
                       /\ ImgPoor(img, p.g, p.i)
                       /\ ImgScore(img, p.i) < 4
                /\ \A a \in inPoor : \A b \in inLow :
                       poor_localization[a] = low_confidence_matches[b]

\* a pair of IoU 64/136 and score 0.3 recorded in both lists, next to a pair of the
\* same gt that is in low_confidence_matches only
C10_Witness ==
    /\ Done
    /\ \E a \in DOMAIN poor_localization : \E b \in DOMAIN low_confidence_matches :
          /\ poor_localization[a] = low_confidence_matches[b]
          /\ poor_localization[a].score = 3
          /\ poor_localization[a].iou = [num |-> 64, den |-> 136]
    /\ Len(low_confidence_matches) = 2
    /\ Len(poor_localization) = 1

\* the records of a category list that refer to gt g of image img
RecordsOfGt(list, img, g) ==
    {k \in DOMAIN list : list[k].image_id = img /\ list[k].gt_annot.pos = g}

\* the matched pairs of image img with IoU >= 0.6 and score >= 0.4
GoodPairs(img) ==
    {k \in DOMAIN ImgPairs(img) :
        /\ ~ImgPoor(img, ImgPairs(img)[k].g, ImgPairs(img)[k].i)
        /\ ImgScore(img, ImgPairs(img)[k].i) >= 4}

\* C11 as stated: neither the gt nor the prediction of a matched pair with
\* IoU >= 0.6 and score >= 0.4 appears in any of the four lists.
C11_Original ==
    Done =>
        \A img \in AllImageIds : \A k \in GoodPairs(img) :
            LET p == ImgPairs(img)[k]
            IN  /\ RecordsOfPred(high_score_false_positives, img, p.i) = {}
                /\ RecordsOfGt(low_score_misses, img, p.g) = {}
                /\ RecordsOfPred(poor_localization, img, p.i) = {}
                /\ RecordsOfGt(poor_localization, img, p.g) = {}
                /\ RecordsOfPred(low_confidence_matches, img, p.i) = {}
                /\ RecordsOfGt(low_confidence_matches, img, p.g) = {}

\* C11 (amended): a matched pair with IoU >= 0.6 and score >= 0.4 has no record of
\* its own; its prediction appears in none of the four lists and its gt is not in
\* low_score_misses; its gt appears in poor_localization or low_confidence_matches
\* only in the record of another pair of that gt, which qualifies for that list.
C11_GoodPairUnrecorded ==
    Done =>
        \A img \in AllImageIds : \A k \in GoodPairs(img) :
            LET p == ImgPairs(img)[k]
            IN  /\ RecordsOfPair(poor_localization, img, p.g, p.i) = {}
                /\ RecordsOfPair(low_confidence_matches, img, p.g, p.i) = {}
                /\ RecordsOfPred(high_score_false_positives, img, p.i) = {}
                /\ RecordsOfPred(poor_localization, img, p.i) = {}
                /\ RecordsOfPred(low_confidence_matches, img, p.i) = {}
                /\ RecordsOfGt(low_score_misses, img, p.g) = {}
                /\ \A r \in RecordsOfGt(poor_localization, img, p.g) :
                      /\ poor_localization[r].pred_annot.pos # p.i
                      /\ ImgMatched(img, p.g, poor_localization[r].pred_annot.pos)
                      /\ ImgPoor(img, p.g, poor_localization[r].pred_annot.pos)
                /\ \A r \in RecordsOfGt(low_confidence_matches, img, p.g) :
                      /\ low_confidence_matches[r].pred_annot.pos # p.i
                      /\ ImgMatched(img, p.g, low_confidence_matches[r].pred_annot.pos)
                      /\ ImgScore(img, low_confidence_matches[r].pred_annot.pos) < 4

\* the spec's example 1 (gt [0,0,10,10], prediction [0,0,10,10], score 0.9) next to a
\* second prediction of the same gt that is recorded in poor_localization
C11_Witness ==
    /\ Done
    /\ \E img \in AllImageIds : \E k \in GoodPairs(img) :
          LET p == ImgPairs(img)[k]
          IN  /\ ImgGt(img)[p.g].bbox = BoxAt(0)
              /\ ImgPred(img)[p.i].bbox = BoxAt(0)
              /\ ImgScore(img, p.i) = 9
              /\ RecordsOfGt(poor_localization, img, p.g) # {}

(***************************************************************************)
(* main after analyze_predictions has returned: the summary, the cap, and  *)
(* the materializer (copy_error_images, then save_coco_for_category for    *)
(* each category).                                                         *)
(*  - A category record is [image_id, item]: main and the materializer     *)
(*    read nothing but its image_id; item stands for the rest of it.       *)
(*  - An image is [id, file_name]; a file_name is the sequence of its path *)
(*    components, <<"a", "x.jpg">> for "a/x.jpg".  A source file is named  *)
(*    by the file_name that images_dir is joined with.                     *)
(*  - out_fs maps each path that exists under output_dir, as a sequence of *)
(*    components, to what is there; "<category>.gt.json" in cocojson is    *)
(*    the path <<"cocojson", category, "gt.json">>.                        *)
(*  - Whether a copy or a visualization fails is the environment's choice. *)
(***************************************************************************)
categories == <<"high_score_false_positives", "low_score_misses",
                "poor_localization", "low_confidence_matches">>

CategorySet == {categories[k] : k \in DOMAIN categories}

\* analysis_result[category]
CatList(category) ==
    CASE category = "high_score_false_positives" -> high_score_false_positives
      [] category = "low_score_misses" -> low_score_misses
      [] category = "poor_localization" -> poor_localization
      [] category = "low_confidence_matches" -> low_confidence_matches

Last(seq) == seq[Len(seq)]

\* os.path.basename of a file_name
basename(file_name) == IF file_name = <<>> THEN "" ELSE Last(file_name)

\* items[:n] when len(items) > n, for n >= 0
\* (cap_items_tail: the variant that keeps the last n)
cap_items_tail(items, n) ==
    IF Len(items) > n THEN SubSeq(items, Len(items) - n + 1, Len(items)) ELSE items

cap_items(items, n) ==
    IF Len(items) > n THEN SubSeq(items, 1, n) ELSE items

\* the set of image ids of a category list
image_ids_of(items) == {items[k].image_id : k \in DOMAIN items}

(***************************************************************************)
(* Inputs of main's second half.                                           *)
(***************************************************************************)
MainImageIds == {1, 2}

Image(id, dir, name) == [id |-> id, file_name |-> <<dir, name>>]

Meta(keys) == [k \in keys |-> <<k>>]

\* gt documents: two images of one basename in two directories; an id twice and
\* the other id missing; the images in reverse order of id; no image at all
GtDocs ==
    { [images |-> <<Image(1, "a", "x.jpg"), Image(2, "b", "x.jpg")>>,
       meta |-> Meta({"categories", "info", "licenses"})],
      [images |-> <<Image(1, "a", "x.jpg"), Image(1, "b", "y.jpg")>>,
       meta |-> Meta({"categories"})],
      [images |-> <<Image(2, "b", "y.jpg"), Image(1, "a", "x.jpg")>>,
       meta |-> Meta({})],
      [images |-> <<>>, meta |-> Meta({"info"})] }

PredDocs ==
    { [images |-> <<Image(2, "b", "x.jpg"), Image(1, "a", "x.jpg")>>,
       meta |-> Meta({})],
      [images |-> <<Image(1, "a", "y.jpg")>>,
       meta |-> Meta({"categories", "info", "licenses"})] }

\* the annotations of both documents: MaxRec of each image, so that every choice of
\* category records below is the analysis of some boxes and scores
GtAnnotations == [k \in 1..(2 * MaxRec) |-> [id |-> k, image_id |-> 1 + (k % 2)]]
PredAnnotations ==
    [k \in 1..(2 * MaxRec) |-> [id |-> k, image_id |-> 1 + ((k + 1) % 2), score |-> 9]]

\* analyze_predictions appends the records of one image after those of another,
\* in the same image order for all four lists
ImageOrders == {<<1, 2>>, <<2, 1>>}

RecordSlots == SeqsUpTo(CategorySet \X MainImageIds, MaxRec)

RecordsOfImage(slots, category, img) ==
    LET n == Cardinality({k \in DOMAIN slots : slots[k] = <<category, img>>})
    IN  [j \in 1..n |-> [image_id |-> img, item |-> j]]

CategoryRecords(slots, order, category) ==
    RecordsOfImage(slots, category, order[1]) \o RecordsOfImage(slots, category, order[2])

\* main, after "analysis_result = analyze_predictions(...)" has returned
InitMain ==
    /\ pc = "analysed"
    /\ \E slots \in RecordSlots : \E order \in ImageOrders :
          /\ high_score_false_positives =
                 CategoryRecords(slots, order, "high_score_false_positives")
          /\ low_score_misses = CategoryRecords(slots, order, "low_score_misses")
          /\ poor_localization = CategoryRecords(slots, order, "poor_localization")
          /\ low_confidence_matches =
                 CategoryRecords(slots, order, "low_confidence_matches")
    /\ gt_data = GtAnnotations
    /\ pred_data = PredAnnotations
    /\ \E doc \in GtDocs : gt_images = doc.images /\ gt_meta = doc.meta
    /\ \E doc \in PredDocs : pred_images = doc.images /\ pred_meta = doc.meta
    /\ max_copy_num \in 0..MaxRec
    /\ summary = <<>>
    /\ category_i = 0
    /\ img_todo = {}
    /\ copied_count = 0
    /\ total_copied = 0
    /\ out_fs = <<>>
    /\ log = <<>>
    /\ events = <<>>
    /\ gt_by_image = <<>>
    /\ pred_by_image = <<>>
    /\ todo = {}
    /\ MatchIdle
    /\ IouIdle
    /\ ExtraIdle

materializer_vars == <<category_i, img_todo, copied_count, total_copied, out_fs,
                       log, events>>
document_vars == <<gt_data, pred_data, gt_images, pred_images, gt_meta, pred_meta,
                   gt_by_image, pred_by_image, todo>>
list_vars == <<high_score_false_positives, low_score_misses, poor_localization,
               low_confidence_matches>>

\* print_analysis_summary(analysis_result): the four counts
PrintSummary ==
    /\ pc = "analysed"
    /\ pc' = "summarised"
    /\ summary' = [k \in DOMAIN categories |-> Len(CatList(categories[k]))]
    /\ UNCHANGED <<max_copy_num, list_vars, document_vars, materializer_vars,
                   match_vars, iou_vars,
                   extra_vars>>

\* "if args.max_copy_num is not None": each list longer than the cap is replaced
\* by its slice
CapLists ==
    /\ pc = "summarised"
    /\ pc' = "capped"
    /\ high_score_false_positives' = cap_items(high_score_false_positives, max_copy_num)
    /\ low_score_misses' = cap_items(low_score_misses, max_copy_num)
    /\ poor_localization' = cap_items(poor_localization, max_copy_num)
    /\ low_confidence_matches' = cap_items(low_confidence_matches, max_copy_num)
    /\ UNCHANGED <<max_copy_num, summary, document_vars, materializer_vars,
                   match_vars, iou_vars,
                   extra_vars>>

(***************************************************************************)
(* The output tree.                                                        *)
(***************************************************************************)
Dir == [kind |-> "dir"]

Prefixes(path) == {SubSeq(path, 1, k) : k \in 0..Len(path)}

\* os.makedirs(path, exist_ok=True); <<>> is output_dir itself
makedirs(fs, path) ==
    [q \in DOMAIN fs \cup Prefixes(path) |-> IF q \in DOMAIN fs THEN fs[q] ELSE Dir]

\* a file written or overwritten at path
\* (write_file_append: the variant that adds to a file that is there)
write_file_append(fs, path, content) ==
    IF path \in DOMAIN fs
    THEN [fs EXCEPT ![path] = [kind |-> "appended", first |-> @, then |-> content]]
    ELSE [q \in DOMAIN fs \cup {path} |-> IF q = path THEN content ELSE fs[q]]

write_file(fs, path, content) ==
    [q \in DOMAIN fs \cup {path} |-> IF q = path THEN content ELSE fs[q]]

RawDir(category) == <<category, "raw">>
VisDir(category) == <<category, "vis">>
RawPath(category, name) == <<category, "raw", name>>
VisPath(category, name) == <<category, "vis", name>>
JsonPath(category, kind) == <<"cocojson", category, kind>>

\* shutil.copy2(src_path, raw_dst_path): the bytes of the source file
CopyOf(file_name) == [kind |-> "copy", src |-> file_name]

\* the image of the source file with the boxes of its annotations drawn on it
annots_of_image(annots, img_id) == SelectSeq(annots, LAMBDA a : a.image_id = img_id)

VisOf(file_name, img_id) ==
    [kind |-> "vis", src |-> file_name,
     gt |-> annots_of_image(gt_data, img_id),
     pred |-> annots_of_image(pred_data, img_id)]

(***************************************************************************)
(* copy_error_images.                                                      *)
(***************************************************************************)
\* "for img in images: if img['id'] == img_id: img_info = img; break": the position
\* of the first image of that id, 0 for None
\* (lookup_image_last: the variant without the break)
lookup_image_last(images, img_id) ==
    IF \E k \in DOMAIN images : images[k].id = img_id
    THEN CHOOSE k \in DOMAIN images :
             images[k].id = img_id /\ \A j \in (k + 1)..Len(images) : images[j].id # img_id
    ELSE 0

lookup_image(images, img_id) ==
    IF \E k \in DOMAIN images : images[k].id = img_id
    THEN CHOOSE k \in DOMAIN images :
             images[k].id = img_id /\ \A j \in 1..(k - 1) : images[j].id # img_id
    ELSE 0

\* whether the visualization is attempted: the "continue" after a failed copy
\* (vis_attempted_always: the variant without the continue)
vis_attempted_always(copy_ok) == TRUE

vis_attempted(copy_ok) == copy_ok

\* the ids left to visit after a failed copy: "continue"
\* (rest_after_failed_copy_break: the variant with "break")
rest_after_failed_copy_break(ids, img_id) == {}

rest_after_failed_copy(ids, img_id) == ids \ {img_id}

\* analysis_result['gt_data']['images'] is a KeyError when the gt document has no
\* "images"; .get('images', []) is [] then
\* (has_images_always: the variant in which the key is never missed)
has_images_always(input) == TRUE

has_images(input) == input # "no_images"

images_or_empty(input, images) == IF has_images(input) THEN images ELSE <<>>

\* lines 256-283: output_dir and the four category directories
BeginCopy ==
    /\ pc = "capped"
    /\ pc' = "category"
    /\ out_fs' = LET mk[k \in 0..Len(categories)] ==
                         IF k = 0 THEN makedirs(out_fs, <<>>)
                         ELSE makedirs(mk[k - 1], <<categories[k]>>)
                 IN  mk[Len(categories)]
    /\ total_copied' = 0
    /\ category_i' = 1
    /\ UNCHANGED <<max_copy_num, summary, list_vars, document_vars, img_todo,
                   copied_count, log, events, match_vars, iou_vars,
                   extra_vars>>

\* lines 285-294: the head of one pass of "for i, category in enumerate(categories)"
EnterCategory ==
    /\ pc = "category"
    /\ pc' = "images"
    /\ copied_count' = 0
    /\ out_fs' = makedirs(makedirs(out_fs, RawDir(categories[category_i])),
                          VisDir(categories[category_i]))
    /\ img_todo' = image_ids_of(CatList(categories[category_i]))
    /\ UNCHANGED <<max_copy_num, summary, list_vars, document_vars, category_i,
                   total_copied, log, events, match_vars, iou_vars,
                   extra_vars>>

\* lines 295-340: one pass of "for img_id in error_images_by_category[category]";
\* the set's iteration order is not specified, and copy_ok and vis_ok say whether
\* shutil.copy2 and the PIL block run without an exception
CopyImage(img_id, copy_ok, vis_ok) ==
    /\ pc = "images"
    /\ img_id \in img_todo
    /\ LET category == categories[category_i]
           k == lookup_image(gt_images, img_id)
       IN  IF ~has_images(gt_input)
           THEN /\ pc' = "raised"
                /\ UNCHANGED <<img_todo, events, out_fs, log, copied_count>>
           ELSE IF k = 0
           THEN /\ pc' = pc
                /\ img_todo' = img_todo \ {img_id}
                /\ events' = Append(events, [category |-> category, image_id |-> img_id,
                                             found |-> FALSE, src |-> <<>>,
                                             copy |-> "none", vis |-> "none"])
                /\ UNCHANGED <<out_fs, log, copied_count>>
           ELSE LET file_name == gt_images[k].file_name
                    name == basename(file_name)
                    attempted == vis_attempted(copy_ok)
                    same_pc == pc' = pc
                    fs1 == IF copy_ok
                           THEN write_file(out_fs, RawPath(category, name),
                                           CopyOf(file_name))
                           ELSE out_fs
                    log1 == IF copy_ok
                            THEN log
                            ELSE Append(log, [text |-> "copy_failed", src |-> file_name])
                IN  /\ same_pc
                    /\ out_fs' = IF attempted /\ vis_ok
                                 THEN write_file(fs1, VisPath(category, name),
                                                 VisOf(file_name, img_id))
                                 ELSE fs1
                    /\ log' = IF attempted /\ ~vis_ok
                              THEN Append(log1, [text |-> "vis_failed", src |-> file_name])
                              ELSE log1
                    /\ copied_count' = IF attempted THEN copied_count + 1
                                       ELSE copied_count
                    /\ img_todo' = IF copy_ok THEN img_todo \ {img_id}
                                   ELSE rest_after_failed_copy(img_todo, img_id)
                    /\ events' = Append(events,
                          [category |-> category, image_id |-> img_id,
                           found |-> TRUE, src |-> file_name,
                           copy |-> IF copy_ok THEN "ok" ELSE "failed",
                           vis |-> IF ~attempted THEN "none"
                                   ELSE IF vis_ok THEN "ok" ELSE "failed"])
    /\ UNCHANGED <<max_copy_num, summary, list_vars, document_vars, category_i,
                   total_copied, match_vars, iou_vars,
                   extra_vars>>

\* lines 342-343: the category's loop is over
LeaveCategory ==
    /\ pc = "images"
    /\ img_todo = {}
    /\ log' = Append(log, [text |-> "category_total",
                           category |-> categories[category_i],
                           count |-> copied_count])
    /\ total_copied' = total_copied + copied_count
    /\ IF category_i = Len(categories)
       THEN pc' = "copied" /\ UNCHANGED category_i
       ELSE pc' = "category" /\ category_i' = category_i + 1
    /\ UNCHANGED <<max_copy_num, summary, list_vars, document_vars, img_todo,
                   copied_count, out_fs, events, match_vars, iou_vars,
                   extra_vars>>

\* line 345, and copy_error_images returns to main
ReturnCopy ==
    /\ pc = "copied"
    /\ pc' = "save"
    /\ log' = Append(log, [text |-> "total", count |-> total_copied])
    /\ category_i' = 1
    /\ UNCHANGED <<max_copy_num, summary, list_vars, document_vars, img_todo,
                   copied_count, total_copied, out_fs, events, match_vars, iou_vars,
                   extra_vars>>

(***************************************************************************)
(* save_coco_for_category.                                                 *)
(***************************************************************************)
\* "if not image_ids: return" before anything is written
\* (writes_json_always: the variant without the early return)
writes_json_always(image_ids) == TRUE

writes_json(image_ids) == image_ids # {}

\* [img for img in images if img.get('id') in image_ids]
filter_images(images, image_ids) == SelectSeq(images, LAMBDA img : img.id \in image_ids)

\* [ann for ann in annots if ann.get('image_id') in image_ids]
\* (filter_annots_none: the variant that keeps every annotation)
filter_annots_none(annots, image_ids) == annots

filter_annots(annots, image_ids) ==
    SelectSeq(annots, LAMBDA ann : ann.image_id \in image_ids)

\* f"{category_key}/raw/{basename}" on a copy of each filtered image
\* (remap_file_name_flat: the docstring's {category_key}/basename)
remap_file_name_flat(category_key, file_name) == <<category_key, basename(file_name)>>

remap_file_name(category_key, file_name) ==
    <<category_key, "raw", basename(file_name)>>

filter_and_remap_filename(category_key, images, image_ids) ==
    LET kept == filter_images(images, image_ids)
    IN  [k \in 1..Len(kept) |->
            [kept[k] EXCEPT !.file_name = remap_file_name(category_key, @)]]

\* gt_out and pred_out: images, annotations, and the three optional keys present
coco_out(category_key, images, annots, meta, image_ids) ==
    [key \in {"images", "annotations"}
               \cup (DOMAIN meta \cap {"categories", "info", "licenses"}) |->
        IF key = "images"
        THEN filter_and_remap_filename(category_key, images, image_ids)
        ELSE IF key = "annotations" THEN filter_annots(annots, image_ids)
        ELSE meta[key]]

JsonOf(document) == [kind |-> "json", doc |-> document]

save_coco_for_category(fs, category_key) ==
    LET fs1 == makedirs(fs, <<"cocojson">>)
        image_ids == image_ids_of(CatList(category_key))
        gt_out == coco_out(category_key, images_or_empty(gt_input, gt_images),
                           gt_data, gt_meta, image_ids)
        pred_out == coco_out(category_key, images_or_empty(pred_input, pred_images),
                             pred_data, pred_meta, image_ids)
    IN  IF ~writes_json(image_ids)
        THEN fs1
        ELSE write_file(write_file(fs1, JsonPath(category_key, "gt.json"),
                                   JsonOf(gt_out)),
                        JsonPath(category_key, "pred.json"), JsonOf(pred_out))

\* "img_copy = dict(img)": file_name is set on a copy, the images of the loaded
\* document are as they were
\* (images_after_remap_in_place: the variant "img_copy = img")
images_after_remap_in_place(category_key, images, image_ids) ==
    [k \in DOMAIN images |->
        IF images[k].id \in image_ids
        THEN [images[k] EXCEPT !.file_name = remap_file_name(category_key, @)]
        ELSE images[k]]

images_after_remap(category_key, images, image_ids) == images

\* main lines 510-513: one pass of "for category in categories"
SaveCategory ==
    /\ pc = "save"
    /\ out_fs' = save_coco_for_category(out_fs, categories[category_i])
    /\ LET image_ids == image_ids_of(CatList(categories[category_i]))
       IN  IF writes_json(image_ids)
           THEN /\ gt_images' = images_after_remap(categories[category_i], gt_images,
                                                   image_ids)
                /\ pred_images' = images_after_remap(categories[category_i],
                                                     pred_images, image_ids)
           ELSE UNCHANGED <<gt_images, pred_images>>
    /\ IF category_i = Len(categories)
       THEN pc' = "finished" /\ UNCHANGED category_i
       ELSE pc' = "save" /\ category_i' = category_i + 1
    /\ UNCHANGED <<max_copy_num, summary, list_vars, gt_data, pred_data, gt_meta,
                   pred_meta, gt_by_image, pred_by_image, todo, img_todo,
                   copied_count, total_copied, log, events, match_vars, iou_vars,
                   extra_vars>>

NextMain ==
    \/ PrintSummary
    \/ CapLists
    \/ BeginCopy
    \/ EnterCategory
    \/ \E img_id \in MainImageIds : \E copy_ok \in BOOLEAN : \E vis_ok \in BOOLEAN :
          CopyImage(img_id, copy_ok, vis_ok)
    \/ LeaveCategory
    \/ ReturnCopy
    \/ SaveCategory

SpecMain == InitMain /\ [][NextMain]_vars

(***************************************************************************)
(* Properties of main's second half.                                       *)
(***************************************************************************)
CategoryIndex == DOMAIN categories

AfterCap == pc \in {"capped", "category", "images", "copied", "save", "finished"}

\* C15: the cap replaces each category list by its first min(max_copy_num, len)
\* records in their order, the materializer that follows works on these lists as
\* they are, and the summary printed before keeps the count of the uncapped lists.
C15_CapKeepsFirst ==
    [][ /\ (pc = "analysed" /\ pc' = "summarised") =>
              \A k \in CategoryIndex : summary'[k] = Len(CatList(categories[k]))
        /\ (pc = "summarised" /\ pc' = "capped") =>
              \A k \in CategoryIndex :
                  /\ CatList(categories[k])' =
                        SubSeq(CatList(categories[k]), 1,
                               Min(max_copy_num, Len(CatList(categories[k]))))
                  /\ summary'[k] = Len(CatList(categories[k]))
        /\ pc # "summarised" => UNCHANGED list_vars
        /\ AfterCap => summary' = summary
      ]_vars

\* a list of two records capped to its first one, with 2 in the summary
C15_Witness ==
    /\ pc = "finished"
    /\ max_copy_num = 1
    /\ \E k \in CategoryIndex :
          /\ summary[k] = 2
          /\ CatList(categories[k]) = <<[image_id |-> 2, item |-> 1]>>
          /\ \E e \in DOMAIN events :
                events[e].category = categories[k] /\ events[e].image_id = 2

\* the images and annotations of a document whose image id is in ids
ImagesIn(images, ids) == {k \in DOMAIN images : images[k].id \in ids}
AnnotsIn(annots, ids) == {k \in DOMAIN annots : annots[k].image_id \in ids}


\* the positions of picked in increasing order
Ordered(picked) ==
    LET RECURSIVE ord(_)
        ord(rest) == IF rest = {} THEN <<>>
                     ELSE LET m == CHOOSE x \in rest : \A y \in rest : x <= y
                          IN  <<m>> \o ord(rest \ {m})
    IN  ord(picked)

\* document (a written JSON) against the input it was filtered from
JsonMatches(doc, category, images, annots, meta, ids) ==
    LET ipos == Ordered(ImagesIn(images, ids))
        apos == Ordered(AnnotsIn(annots, ids))
    IN  /\ Len(doc.images) = Len(ipos)
        /\ \A k \in DOMAIN ipos :
              /\ doc.images[k].id = images[ipos[k]].id
              /\ doc.images[k].file_name =
                    <<category, "raw", Last(images[ipos[k]].file_name)>>
              /\ DOMAIN doc.images[k] = DOMAIN images[ipos[k]]
        /\ Len(doc.annotations) = Len(apos)
        /\ \A k \in DOMAIN apos : doc.annotations[k] = annots[apos[k]]
        /\ \A key \in {"categories", "info", "licenses"} :
              IF key \in DOMAIN meta
              THEN key \in DOMAIN doc /\ doc[key] = meta[key]
              ELSE key \notin DOMAIN doc

\* the categories whose save_coco_for_category call has returned
Saved == IF pc = "finished" THEN CategorySet
         ELSE IF pc = "save" THEN {categories[k] : k \in 1..(category_i - 1)}
         ELSE {}

IsDir(path) == path \in DOMAIN out_fs /\ out_fs[path].kind = "dir"
IsJson(path) == path \in DOMAIN out_fs /\ out_fs[path].kind = "json"

\* C17 as stated: after the run, raw, vis and the JSON pair exist for each of the
\* four categories, whatever the analysis result.
C17_Original ==
    pc = "finished" =>
        \A c \in CategorySet :
            /\ IsDir(RawDir(c))
            /\ IsDir(VisDir(c))
            /\ IsJson(JsonPath(c, "gt.json"))
            /\ IsJson(JsonPath(c, "pred.json"))

\* C17 (amended): after a run into an empty output directory, raw and vis exist
\* for each of the four categories and cocojson exists; the JSON pair of a
\* category exists exactly when the category, as capped, has at least one record.
C17_DirsAlwaysJsonIfRecords ==
    pc = "finished" =>
        /\ IsDir(<<"cocojson">>)
        /\ \A c \in CategorySet :
              /\ IsDir(RawDir(c))
              /\ IsDir(VisDir(c))
              /\ IsJson(JsonPath(c, "gt.json")) <=> CatList(c) # <<>>
              /\ IsJson(JsonPath(c, "pred.json")) <=> CatList(c) # <<>>
              /\ JsonPath(c, "gt.json") \in DOMAIN out_fs <=> CatList(c) # <<>>
              /\ JsonPath(c, "pred.json") \in DOMAIN out_fs <=> CatList(c) # <<>>

\* low_score_misses has a record and its pair; poor_localization has none and only
\* its two directories
C17_Witness ==
    /\ pc = "finished"
    /\ low_score_misses # <<>>
    /\ poor_localization = <<>>
    /\ IsJson(JsonPath("low_score_misses", "gt.json"))
    /\ IsDir(RawDir("poor_localization"))
    /\ IsDir(VisDir("poor_localization"))
    /\ JsonPath("poor_localization", "gt.json") \notin DOMAIN out_fs

\* the events of one category, and the ids that category implicates
EventsOf(c) == {k \in DOMAIN events : events[k].category = c}
VisitedIds(c) == {events[k].image_id : k \in EventsOf(c)}

\* the category whose images are being visited
CurrentCategory == categories[category_i]

\* every image id of the category in hand is either visited or still to visit
LoopContinues ==
    pc = "images" =>
        /\ img_todo \cup VisitedIds(CurrentCategory) =
               image_ids_of(CatList(CurrentCategory))
        /\ img_todo \cap VisitedIds(CurrentCategory) = {}

\* the raw copy of the image visited last is in place
LastRawInPlace ==
    LET e == Last(events)
    IN  /\ RawPath(e.category, basename(e.src)) \in DOMAIN out_fs
        /\ out_fs[RawPath(e.category, basename(e.src))] = CopyOf(e.src)

\* C18 as stated: a failed visualization leaves the raw copy in place, a failed raw
\* copy does not keep the visualization of that image from being attempted, and
\* the loop goes on with the next image.
C18_Original ==
    /\ LoopContinues
    /\ events # <<>> =>
          /\ (Last(events).copy = "ok" /\ Last(events).vis = "failed") => LastRawInPlace
          /\ Last(events).copy = "failed" => Last(events).vis # "none"

\* C18 (amended): a failed visualization leaves the raw copy in place and the image
\* is counted; a failed raw copy skips the visualization of that image, which is
\* not attempted and not counted; in both cases the loop goes on with the next
\* image.
C18_FailedCopySkipsVis ==
    /\ LoopContinues
    /\ events # <<>> =>
          /\ (Last(events).copy = "ok" /\ Last(events).vis = "failed") => LastRawInPlace
          /\ \A k \in DOMAIN events :
                events[k].copy = "failed" => events[k].vis = "none"
          /\ \A k \in DOMAIN events :
                events[k].vis # "none" => events[k].copy = "ok"
    /\ pc = "images" =>
          copied_count =
              Cardinality({k \in EventsOf(CurrentCategory) : events[k].copy = "ok"})

\* in one category: the copy of one image fails, the loop goes on to the next,
\* whose copy succeeds and whose visualization fails
C18_Witness ==
    /\ pc = "images"
    /\ Len(events) >= 2
    /\ LET e == events[Len(events) - 1]
           f == Last(events)
       IN  /\ e.category = f.category
           /\ e.copy = "failed"
           /\ e.vis = "none"
           /\ f.copy = "ok"
           /\ f.vis = "failed"
           /\ LastRawInPlace
           /\ VisPath(f.category, basename(f.src)) \notin DOMAIN out_fs
           /\ copied_count = 1

CopyRunning == pc \in {"capped", "category", "images", "copied"}
CopyReturned == pc \in {"save", "finished"}

\* the categories whose loop of copy_error_images is over
CategoriesDone ==
    IF pc \in {"copied", "save", "finished"} THEN CategorySet
    ELSE IF pc \in {"category", "images"}
         THEN {categories[k] : k \in 1..(category_i - 1)}
         ELSE {}

\* the categories whose loop has not begun
CategoriesNotBegun ==
    IF pc = "category" THEN {categories[k] : k \in category_i..Len(categories)}
    ELSE IF pc = "images"
         THEN {categories[k] : k \in (category_i + 1)..Len(categories)}
         ELSE CategorySet \ CategoriesDone

\* C19: whatever fails on single images (id not resolved, copy failed,
\* visualization failed), copy_error_images visits every implicated image id of
\* each of the four categories, in every state before its return it has a next
\* step to take, and it returns to main with all of them visited.
C19_EveryImageVisited ==
    /\ LoopContinues
    /\ \A c \in CategoriesDone : VisitedIds(c) = image_ids_of(CatList(c))
    /\ \A c \in CategoriesNotBegun : EventsOf(c) = {}
    /\ CopyRunning => ENABLED NextMain
    /\ CopyReturned =>
          /\ Len(events) =
                 Cardinality({<<c, id>> \in CategorySet \X MainImageIds :
                                 id \in image_ids_of(CatList(c))})
          /\ log # <<>> /\ \E k \in DOMAIN log : log[k].text = "total"

\* the copy of an image of one category fails, and an image of a later category
\* is copied and drawn after it
C19_Witness ==
    /\ CopyReturned
    /\ Len(events) = 2
    /\ events[1].copy = "failed"
    /\ events[2].category # events[1].category
    /\ events[2].copy = "ok"
    /\ events[2].vis = "ok"

\* an implicated id without a gt image is skipped: nothing copied or drawn for it,
\* and it is not counted
UnresolvedSkipped ==
    /\ \A k \in DOMAIN events :
          (\A j \in DOMAIN gt_images : gt_images[j].id # events[k].image_id) =>
              /\ ~events[k].found
              /\ events[k].copy = "none"
              /\ events[k].vis = "none"
    /\ pc = "images" =>
          copied_count <=
              Cardinality({k \in EventsOf(CurrentCategory) : events[k].found})

\* of several gt images of one id the first in list order is the one used
FirstMatchUsed ==
    \A k \in DOMAIN events :
        (\E j \in DOMAIN gt_images : gt_images[j].id = events[k].image_id) =>
            /\ events[k].found
            /\ \E j \in DOMAIN gt_images :
                  /\ gt_images[j].id = events[k].image_id
                  /\ \A i \in 1..(j - 1) : gt_images[i].id # events[k].image_id
                  /\ events[k].src = gt_images[j].file_name

\* a line was printed that names the image id that could not be resolved
UnresolvedLogged ==
    \A k \in DOMAIN events :
        ~events[k].found =>
            \E j \in DOMAIN log :
                /\ log[j].text = "lookup_failed"
                /\ log[j].image_id = events[k].image_id

\* C20: an implicated image id without an entry in the gt image list is skipped
\* (not copied, not drawn, not counted), a warning is printed for it, and the loop
\* goes on; of several gt images of one id the first in list order is used.
C20_UnresolvedSkippedAndLogged ==
    /\ LoopContinues
    /\ UnresolvedSkipped
    /\ FirstMatchUsed
    /\ UnresolvedLogged

\* the skip and the first match without the warning, which do hold
SkipAndFirstMatch == LoopContinues /\ UnresolvedSkipped /\ FirstMatchUsed

(***************************************************************************)
(* main from its first line, with inputs that may be unusable: a JSON file *)
(* that is missing, that is not JSON, or that lacks "annotations" or       *)
(* "images".  analyze_predictions is one step here: boxes and scores are   *)
(* not part of these documents, so its four lists are any lists the        *)
(* annotations allow.  An uncaught exception ends the run at "raised",     *)
(* with the traceback as its report.                                       *)
(***************************************************************************)
InputConditions == {"ok", "missing", "malformed", "no_annotations", "no_images"}

\* the documents behind an input: those of GtDocs / PredDocs for a usable file, one
\* without images for "no_images", none for a file that never loads or never
\* passes the grouping
InputDocs(input, docs) ==
    IF input = "ok" THEN docs
    ELSE IF input = "no_images" THEN {[images |-> <<>>, meta |-> Meta({"categories"})]}
    ELSE {[images |-> <<>>, meta |-> Meta({})]}

Loads(input) == input \in {"ok", "no_images"}

InitRun ==
    /\ pc = "start"
    /\ gt_input \in InputConditions
    /\ pred_input \in InputConditions
    /\ \E doc \in InputDocs(gt_input, GtDocs) :
          gt_images = doc.images /\ gt_meta = doc.meta
    /\ \E doc \in InputDocs(pred_input, PredDocs) :
          pred_images = doc.images /\ pred_meta = doc.meta
    /\ gt_data = IF Loads(gt_input) THEN GtAnnotations ELSE <<>>
    /\ pred_data = IF Loads(pred_input) THEN PredAnnotations ELSE <<>>
    /\ max_copy_num \in 0..MaxRec
    /\ high_score_false_positives = <<>>
    /\ low_score_misses = <<>>
    /\ poor_localization = <<>>
    /\ low_confidence_matches = <<>>
    /\ summary = <<>>
    /\ category_i = 0
    /\ img_todo = {}
    /\ copied_count = 0
    /\ total_copied = 0
    /\ out_fs = <<>>
    /\ log = <<>>
    /\ events = <<>>
    /\ gt_by_image = <<>>
    /\ pred_by_image = <<>>
    /\ todo = {}
    /\ run_no = 1
    /\ first_tree = <<>>
    /\ file_outcome = <<>>
    /\ MatchIdle
    /\ IouIdle
    /\ ToolIdle

\* main lines 469-476: both files must exist
CheckInputFiles ==
    /\ pc = "start"
    /\ IF gt_input = "missing"
       THEN pc' = "aborted" /\ log' = Append(log, [text |-> "gt_json_missing"])
       ELSE IF pred_input = "missing"
       THEN pc' = "aborted" /\ log' = Append(log, [text |-> "pred_json_missing"])
       ELSE pc' = "checked" /\ UNCHANGED log
    /\ UNCHANGED <<max_copy_num, summary, list_vars, document_vars, category_i,
                   img_todo, copied_count, total_copied, out_fs, events, match_vars,
                   iou_vars, extra_vars>>

\* analyze_predictions as one call: json.load of either file raises on text that
\* is not JSON, gt_data['annotations'] and pred_data['annotations'] raise KeyError
\* when the key is absent; "images" is not read
CallAnalyzePredictions ==
    /\ pc = "checked"
    /\ IF \/ gt_input \in {"malformed", "no_annotations"}
          \/ pred_input \in {"malformed", "no_annotations"}
       THEN pc' = "raised" /\ UNCHANGED list_vars
       ELSE /\ pc' = "analysed"
            /\ \E slots \in RecordSlots : \E order \in ImageOrders :
                  /\ high_score_false_positives' =
                         CategoryRecords(slots, order, "high_score_false_positives")
                  /\ low_score_misses' =
                         CategoryRecords(slots, order, "low_score_misses")
                  /\ poor_localization' =
                         CategoryRecords(slots, order, "poor_localization")
                  /\ low_confidence_matches' =
                         CategoryRecords(slots, order, "low_confidence_matches")
    /\ UNCHANGED <<max_copy_num, summary, document_vars, materializer_vars,
                   match_vars, iou_vars, extra_vars>>

NextRun ==
    \/ CheckInputFiles
    \/ CallAnalyzePredictions
    \/ NextMain

SpecRun == InitRun /\ [][NextRun]_vars

Fatal == gt_input # "ok" \/ pred_input # "ok"

RunStopped == pc \in {"aborted", "raised", "finished"}

\* C21: on a gt or prediction JSON that is missing, is not JSON, or lacks "images"
\* or "annotations", the run reports the error and aborts, and nothing has been
\* created under the output directory when it stops.
C21_FatalNothingWritten ==
    Fatal =>
        /\ out_fs = <<>>
        /\ pc # "finished"
        /\ RunStopped => pc \in {"aborted", "raised"}

\* what does hold: a file that is missing, is not JSON or lacks "annotations" stops
\* the run before anything is written
FatalBeforeAnalysis ==
    (\/ gt_input \in {"missing", "malformed", "no_annotations"}
     \/ pred_input \in {"missing", "malformed", "no_annotations"}) =>
        /\ out_fs = <<>>
        /\ pc \in {"start", "checked", "aborted", "raised"}

\* C22: no step of the run (analysis, cap, copy_error_images,
\* save_coco_for_category) changes the two loaded documents: their images with
\* their file_name, their annotations and their other keys stay as loaded, and
\* the rewritten file_name is found in the written JSON only.
C22_InputsUnchanged ==
    [][ /\ gt_images' = gt_images
        /\ pred_images' = pred_images
        /\ gt_data' = gt_data
        /\ pred_data' = pred_data
        /\ gt_meta' = gt_meta
        /\ pred_meta' = pred_meta ]_vars

\* the run is over, the JSON of low_score_misses names image 1 by its remapped
\* file_name and the loaded gt document still names it a/x.jpg
C22_Witness ==
    /\ pc = "finished"
    /\ gt_images = <<Image(1, "a", "x.jpg"), Image(2, "b", "x.jpg")>>
    /\ JsonPath("low_score_misses", "gt.json") \in DOMAIN out_fs
    /\ out_fs[JsonPath("low_score_misses", "gt.json")].doc.images =
           <<[id |-> 1, file_name |-> <<"low_score_misses", "raw", "x.jpg">>]>>
    /\ gt_data = GtAnnotations

(***************************************************************************)
(* The materialization run twice on one analysis result, one images        *)
(* directory and one output directory.  What copying and drawing a source  *)
(* file gives is a property of the file, the same in both runs.            *)
(***************************************************************************)
SourceFiles(images) == {images[k].file_name : k \in DOMAIN images}

FileOutcomes(images) == [SourceFiles(images) -> {"copy_fails", "vis_fails", "ok"}]

InitTwice ==
    /\ pc = "capped"
    /\ \E slots \in RecordSlots : \E order \in ImageOrders :
          /\ high_score_false_positives =
                 CategoryRecords(slots, order, "high_score_false_positives")
          /\ low_score_misses = CategoryRecords(slots, order, "low_score_misses")
          /\ poor_localization = CategoryRecords(slots, order, "poor_localization")
          /\ low_confidence_matches =
                 CategoryRecords(slots, order, "low_confidence_matches")
    /\ summary = [k \in DOMAIN categories |-> Len(CatList(categories[k]))]
    /\ max_copy_num = MaxRec
    /\ gt_data = GtAnnotations
    /\ pred_data = PredAnnotations
    /\ \E doc \in GtDocs : gt_images = doc.images /\ gt_meta = doc.meta
    /\ \E doc \in PredDocs : pred_images = doc.images /\ pred_meta = doc.meta
    /\ file_outcome \in FileOutcomes(gt_images)
    /\ gt_input = "ok"
    /\ pred_input = "ok"
    /\ run_no = 1
    /\ first_tree = <<>>
    /\ category_i = 0
    /\ img_todo = {}
    /\ copied_count = 0
    /\ total_copied = 0
    /\ out_fs = <<>>
    /\ log = <<>>
    /\ events = <<>>
    /\ gt_by_image = <<>>
    /\ pred_by_image = <<>>
    /\ todo = {}
    /\ MatchIdle
    /\ IouIdle
    /\ ToolIdle

\* one pass of the image loop, with the outcome its source file has
CopyImageOfFile(img_id) ==
    LET k == lookup_image(gt_images, img_id)
        outcome == IF k = 0 THEN "ok" ELSE file_outcome[gt_images[k].file_name]
    IN  CopyImage(img_id, outcome # "copy_fails", outcome = "ok")

\* copy_error_images and the four save_coco_for_category calls are made again
Repeat ==
    /\ pc = "finished"
    /\ run_no = 1
    /\ run_no' = 2
    /\ first_tree' = out_fs
    /\ pc' = "capped"
    /\ log' = <<>>
    /\ events' = <<>>
    /\ UNCHANGED <<max_copy_num, summary, list_vars, document_vars, category_i,
                   img_todo, copied_count, total_copied, out_fs, gt_input,
                   pred_input, file_outcome, match_vars, iou_vars, tool_vars>>

NextTwice ==
    \/ BeginCopy
    \/ EnterCategory
    \/ \E img_id \in MainImageIds : CopyImageOfFile(img_id)
    \/ LeaveCategory
    \/ ReturnCopy
    \/ SaveCategory
    \/ Repeat

SpecTwice == InitTwice /\ [][NextTwice]_vars

JsonPaths == {path \in DOMAIN out_fs : out_fs[path].kind \notin {"dir", "copy", "vis"}}

\* C23: the second run of copy_error_images and save_coco_for_category on the
\* same analysis result, images directory and output directory adds no path to
\* the output tree and removes none, and when it is over every JSON file has the
\* content it had after the first run.
C23_MaterializeTwice ==
    run_no = 2 =>
        /\ DOMAIN out_fs = DOMAIN first_tree
        /\ \A path \in DOMAIN out_fs : out_fs[path].kind = first_tree[path].kind
        /\ pc = "finished" =>
              \A path \in JsonPaths : out_fs[path] = first_tree[path]

\* both runs are over; the first left a raw copy without its visualization, a
\* raw copy with it, and a JSON pair
C23_Witness ==
    /\ run_no = 2
    /\ pc = "finished"
    /\ Len(events) = 2
    /\ events[1].vis = "failed"
    /\ events[2].vis = "ok"
    /\ \E path \in DOMAIN first_tree : first_tree[path].kind = "json"
    /\ \E path \in DOMAIN first_tree : first_tree[path].kind = "vis"

(***************************************************************************)
(* merge_jsons (tools/merge_jsons.py).  A COCO dict here is [images,       *)
(* annotations]; an image is [id], an annotation is [id, image_id].        *)
(***************************************************************************)
\* the sequences without repetition over S
InjectiveSeqs(S) ==
    {q \in SeqsUpTo(S, Cardinality(S)) : \A i, j \in DOMAIN q : q[i] = q[j] => i = j}

\* the dicts to merge: image ids unique within the dict, annotation ids unique
\* within the dict, every annotation on the first image of its dict
MergeDicts ==
    {[images |-> [k \in DOMAIN iq |-> [id |-> iq[k]]],
      annotations |-> [k \in DOMAIN aq |-> [id |-> aq[k], image_id |-> iq[1]]]] :
         <<iq, aq>> \in {x \in InjectiveSeqs(1..MaxMergeId) \X InjectiveSeqs(1..MaxMergeId) :
                           x[1] = <<>> => x[2] = <<>>}}

\* max([d['id'] for d in items]) if items else 0
max_id(items) ==
    IF items = <<>> THEN 0
    ELSE CHOOSE m \in {items[k].id : k \in DOMAIN items} :
             \A k \in DOMAIN items : items[k].id <= m

\* mapping[key] = value
map_put(mapping, key, value) ==
    [x \in DOMAIN mapping \cup {key} |-> IF x = key THEN value ELSE mapping[x]]

\* lines 36-39: the identity on the ids of the first dict
initial_mapping(items) == [x \in {items[k].id : k \in DOMAIN items} |-> x]

\* lines 43-58 and 61-78 for one item: a fresh id when the original id is a key of
\* the mapping, the original id otherwise
id_conflicts(mapping, id) == id \in DOMAIN mapping

\* lines 43-58: the images of one further dict, from position k on
RECURSIVE merge_images(_, _, _)
merge_images(st, imgs, k) ==
    IF k > Len(imgs) THEN st
    ELSE LET original_img_id == imgs[k].id
             conflict == id_conflicts(st.img_id_mapping, original_img_id)
             new_id == IF conflict THEN st.max_img_id + 1 ELSE original_img_id
             st1 == [st EXCEPT
                        !.max_img_id = IF conflict THEN @ + 1
                                       ELSE Max(@, original_img_id),
                        !.img_id_mapping = map_put(@, original_img_id, new_id),
                        !.images = Append(@, [imgs[k] EXCEPT !.id = new_id])]
         IN  merge_images(st1, imgs, k + 1)

\* lines 61-78: the annotations of one further dict, from position k on
RECURSIVE merge_annotations(_, _, _)
merge_annotations(st, anns, k) ==
    IF k > Len(anns) THEN st
    ELSE LET original_ann_id == anns[k].id
             conflict == id_conflicts(st.ann_id_mapping, original_ann_id)
             new_id == IF conflict THEN st.max_ann_id + 1 ELSE original_ann_id
             st1 == [st EXCEPT
                        !.max_ann_id = IF conflict THEN @ + 1
                                       ELSE Max(@, original_ann_id),
                        !.ann_id_mapping = map_put(@, original_ann_id, new_id),
                        !.annotations =
                            Append(@, [anns[k] EXCEPT
                                          !.id = new_id,
                                          !.image_id = st.img_id_mapping[anns[k].image_id]])]
         IN  merge_annotations(st1, anns, k + 1)

\* line 41: "for coco_dict in coco_dicts[1:]", from position d on
RECURSIVE merge_rest(_, _, _)
merge_rest(st, dicts, d) ==
    IF d > Len(dicts) THEN st
    ELSE merge_rest(merge_annotations(merge_images(st, dicts[d].images, 1),
                                      dicts[d].annotations, 1),
                    dicts, d + 1)

merge_jsons(dicts) ==
    LET first == dicts[1]
        st == merge_rest([images |-> first.images,
                          annotations |-> first.annotations,
                          max_img_id |-> max_id(first.images),
                          max_ann_id |-> max_id(first.annotations),
                          img_id_mapping |-> initial_mapping(first.images),
                          ann_id_mapping |-> initial_mapping(first.annotations)],
                         dicts, 2)
    IN  [images |-> st.images, annotations |-> st.annotations]

InitMerge ==
    /\ pc = "merge_call"
    /\ coco_dicts \in SeqsUpTo(MergeDicts, 2) \ {<<>>}
    /\ merged_dict = <<>>
    /\ MatchIdle
    /\ AnalysisIdle
    /\ IouIdle
    /\ MainIdle
    /\ RunIdle
    /\ PermIdle
    /\ ExcludeIdle
    /\ AssignIdle

CallMergeJsons ==
    /\ pc = "merge_call"
    /\ pc' = "merge_return"
    /\ merged_dict' = merge_jsons(coco_dicts)
    /\ UNCHANGED <<coco_dicts, match_vars, analysis_vars, iou_vars, main_vars,
                   run_vars, perm_vars, exclude_vars, assign_vars>>

NextMerge == CallMergeJsons

SpecMerge == InitMerge /\ [][NextMerge]_vars

UniqueIds(items) == \A i, j \in DOMAIN items : items[i].id = items[j].id => i = j

\* C24: when the image ids and the annotation ids are unique within each dict to
\* merge, the merged dict has no two images of one id and no two annotations of
\* one id.
C24_MergedIdsUnique ==
    pc = "merge_return" =>
        /\ UniqueIds(merged_dict.images)
        /\ UniqueIds(merged_dict.annotations)

(***************************************************************************)
(* exclude_images (tools/exclude_json.py).  An image is [id, file_name],   *)
(* an annotation is [id, image_id].  coco_dict_a holds the argument as it  *)
(* was passed; out_dict is the dict the call returns (in Python the same   *)
(* object, updated in place).                                              *)
(***************************************************************************)
FileNames == {"x.jpg", "y.jpg"}

ExcludeImages == [id : 1..MaxExImages, file_name : FileNames]

\* annotation k has id k and refers to any image id, present or not
ExcludeAnnotLists ==
    {[k \in DOMAIN q |-> [id |-> k, image_id |-> q[k]]] :
        q \in SeqsUpTo(1..MaxExImages, MaxExAnnots)}

\* set(img["file_name"] for img in images_b)
excluded_file_names(images_b) == {images_b[k].file_name : k \in DOMAIN images_b}

\* lines 44-48: the ids of the images of A whose file_name is not excluded
valid_image_ids(images_a, excluded) ==
    {images_a[k].id : k \in {j \in DOMAIN images_a : images_a[j].file_name \notin excluded}}

\* line 53
filtered_images(images_a, valid) ==
    LET keep(img) == img.id \in valid
    IN  SelectSeq(images_a, keep)

\* line 57
filtered_annotations(annotations_a, valid) ==
    LET keep(ann) == ann.image_id \in valid
    IN  SelectSeq(annotations_a, keep)

exclude_images(dict_a, dict_b) ==
    LET valid == valid_image_ids(dict_a.images, excluded_file_names(dict_b.images))
    IN  [images |-> filtered_images(dict_a.images, valid),
         annotations |-> filtered_annotations(dict_a.annotations, valid)]

InitExclude ==
    /\ pc = "exclude_call"
    /\ coco_dict_a \in [images : SeqsUpTo(ExcludeImages, MaxExImages),
                        annotations : ExcludeAnnotLists]
    /\ coco_dict_b \in [images : SeqsUpTo([file_name : FileNames], 1)]
    /\ out_dict = <<>>
    /\ MatchIdle
    /\ AnalysisIdle
    /\ IouIdle
    /\ MainIdle
    /\ RunIdle
    /\ PermIdle
    /\ MergeIdle
    /\ AssignIdle

CallExcludeImages ==
    /\ pc = "exclude_call"
    /\ pc' = "exclude_return"
    /\ out_dict' = exclude_images(coco_dict_a, coco_dict_b)
    /\ UNCHANGED <<coco_dict_a, coco_dict_b, match_vars, analysis_vars, iou_vars,
                   main_vars, run_vars, perm_vars, merge_vars, assign_vars>>

NextExclude == CallExcludeImages

SpecExclude == InitExclude /\ [][NextExclude]_vars

Elems(q) == {q[k] : k \in DOMAIN q}

NamesInB == excluded_file_names(coco_dict_b.images)

NoExcludedImageLeft ==
    \A img \in Elems(out_dict.images) : img.file_name \notin NamesInB

AnnotationsReferToKept ==
    \A ann \in Elems(out_dict.annotations) :
        \E img \in Elems(out_dict.images) : img.id = ann.image_id

OthersKeptWithAnnotations ==
    \A img \in Elems(coco_dict_a.images) :
        img.file_name \notin NamesInB =>
            /\ img \in Elems(out_dict.images)
            /\ \A ann \in Elems(coco_dict_a.annotations) :
                   ann.image_id = img.id => ann \in Elems(out_dict.annotations)

\* C25: after exclude_images(A, B) no image of the result has a file_name that
\* occurs in B, every remaining annotation refers to a remaining image, and every
\* image of A whose file_name does not occur in B is kept with all its annotations.
C25_ExcludedGoneOthersKept ==
    pc = "exclude_return" =>
        /\ NoExcludedImageLeft
        /\ AnnotationsReferToKept
        /\ OthersKeptWithAnnotations

\* the three parts hold of every A whose image ids are unique
ExcludeExactOnUniqueIds ==
    (pc = "exclude_return" /\ UniqueIds(coco_dict_a.images)) =>
        /\ NoExcludedImageLeft
        /\ AnnotationsReferToKept
        /\ OthersKeptWithAnnotations

\* the two parts that hold of every A
ExcludeKeepsOthers ==
    pc = "exclude_return" => AnnotationsReferToKept /\ OthersKeptWithAnnotations

(***************************************************************************)
(* The index lookup of find_matching_annotations on gt lists that hold     *)
(* annotations equal by value.                                             *)
(***************************************************************************)
HasEqualValued(gt_list) ==
    \E g, h \in DOMAIN gt_list : g # h /\ gt_list[g] = gt_list[h]

\* in the result res of a call, some gt position has a matched pair and is in
\* unmatched_gt, or has no matched pair and is not in unmatched_gt
Misreports(gt_list, res) ==
    \E g \in DOMAIN gt_list :
        LET has_pair == \E k \in DOMAIN res.matched_pairs :
                            res.matched_pairs[k].gt_annot.pos = g
            reported == \E k \in DOMAIN res.unmatched_gt : res.unmatched_gt[k].pos = g
        IN  has_pair <=> reported

\* the claim as first stated: some gt_list with two equal-valued annotations, some
\* pred_list and some threshold (the current call's among them) make the call
\* misreport a gt position
C26_Original ==
    \E gt_list \in SeqsUpTo(MatchGtAnnots, MaxGt) :
        \E pred_list \in SeqsUpTo(MatchPredAnnots, MaxPred) :
            \E threshold \in Thresholds \cup {iou_arg} :
                /\ HasEqualValued(gt_list)
                /\ Misreports(gt_list,
                              find_matching_annotations(gt_list, pred_list, threshold))

\* C26: the index lookup by value does not break on equal-valued ground truth: for
\* every gt_list that holds two equal-valued annotations and every pred_list, no gt
\* position with a matched pair is in unmatched_gt and every gt position without a
\* matched pair is in unmatched_gt; the later of two equal-valued annotations never
\* has a matched pair.
C26_IndexLookupHarmless ==
    (Returned /\ HasEqualValued(gt_annots)) =>
        /\ ~Misreports(gt_annots, [matched_pairs |-> matched_pairs,
                                   unmatched_gt |-> unmatched_gt])
        /\ \A g, h \in GtPos :
               (g < h /\ gt_annots[g] = gt_annots[h]) => PairsOfGt(h) = {}

\* a returned call on two equal-valued gt annotations of which the first has a
\* matched pair and the second is reported unmatched
C26_Witness ==
    /\ Returned
    /\ Len(gt_annots) = 2
    /\ gt_annots[1] = gt_annots[2]
    /\ PairsOfGt(1) # {}
    /\ \E k \in DOMAIN unmatched_gt : unmatched_gt[k].pos = 2

(***************************************************************************)
(* find_matching_annotations called on a prediction list and on a          *)
(* permutation of it.  perm[k] is the position in pred_annots of the       *)
(* prediction that stands at position k of the permuted list.              *)
(***************************************************************************)
OrdersOf(n) == {f \in [1..n -> 1..n] : \A i, j \in 1..n : f[i] = f[j] => i = j}

permuted(list, f) == [k \in 1..Len(list) |-> list[f[k]]]

\* gt annotations of two boxes, and two of different ids on one box
PermGtAnnots ==
    {a \in MatchGtAnnots : a.id = 1 \/ (a.id = 2 /\ a.bbox = BoxAt(0))}

InitPerm ==
    /\ pc = "perm_call"
    /\ gt_annots \in SeqsUpTo(PermGtAnnots, MaxGt)
    /\ pred_annots \in SeqsUpTo(MatchPredAnnots, MaxPred)
    /\ perm \in OrdersOf(Len(pred_annots))
    /\ iou_arg \in Thresholds
    /\ matched_pairs = <<>>
    /\ unmatched_gt = <<>>
    /\ unmatched_pred = <<>>
    /\ perm_matched_pairs = <<>>
    /\ perm_unmatched_gt = <<>>
    /\ perm_unmatched_pred = <<>>
    /\ AnalysisIdle
    /\ IouIdle
    /\ MainIdle
    /\ RunIdle
    /\ MergeIdle
    /\ ExcludeIdle
    /\ AssignIdle

CallOnList ==
    /\ pc = "perm_call"
    /\ pc' = "perm_second_call"
    /\ LET r == find_matching_annotations(gt_annots, pred_annots, iou_arg)
       IN  /\ matched_pairs' = r.matched_pairs
           /\ unmatched_gt' = r.unmatched_gt
           /\ unmatched_pred' = r.unmatched_pred
    /\ UNCHANGED <<gt_annots, pred_annots, iou_arg, analysis_vars, iou_vars, main_vars,
                   run_vars, perm_vars, merge_vars, exclude_vars, assign_vars>>

CallOnPermutation ==
    /\ pc = "perm_second_call"
    /\ pc' = "perm_return"
    /\ LET r == find_matching_annotations(gt_annots, permuted(pred_annots, perm), iou_arg)
       IN  /\ perm_matched_pairs' = r.matched_pairs
           /\ perm_unmatched_gt' = r.unmatched_gt
           /\ perm_unmatched_pred' = r.unmatched_pred
    /\ UNCHANGED <<perm, match_vars, analysis_vars, iou_vars, main_vars,
                   run_vars, merge_vars, exclude_vars, assign_vars>>

NextPerm == CallOnList \/ CallOnPermutation

SpecPerm == InitPerm /\ [][NextPerm]_vars

PermReturned == pc = "perm_return"

\* the matched pairs of the two calls as (gt position, position of the prediction
\* in pred_annots, IoU)
PairSet ==
    {<<matched_pairs[k].gt_annot.pos, matched_pairs[k].pred_annot.pos,
       matched_pairs[k].iou>> : k \in DOMAIN matched_pairs}

PermPairSet ==
    {<<perm_matched_pairs[k].gt_annot.pos, perm[perm_matched_pairs[k].pred_annot.pos],
       perm_matched_pairs[k].iou>> : k \in DOMAIN perm_matched_pairs}

UnmatchedPredSet == {unmatched_pred[k].pos : k \in DOMAIN unmatched_pred}

PermUnmatchedPredSet ==
    {perm[perm_unmatched_pred[k].pos] : k \in DOMAIN perm_unmatched_pred}

\* C27: for every gt_list, threshold and permutation of pred_list, the call on the
\* permuted list returns the same set of matched (gt position, prediction) pairs,
\* the same set of unmatched predictions and the same unmatched_gt as the call on
\* pred_list.
C27_PredOrderIrrelevant ==
    PermReturned =>
        /\ PermPairSet = PairSet
        /\ PermUnmatchedPredSet = UnmatchedPredSet
        /\ perm_unmatched_gt = unmatched_gt

\* two predictions swapped, both matched, and the entries of matched_pairs come in
\* the other order
C27_Witness ==
    /\ PermReturned
    /\ perm = <<2, 1>>
    /\ pred_annots[1] # pred_annots[2]
    /\ Len(matched_pairs) = 2
    /\ Len(perm_matched_pairs) = 2
    /\ perm_matched_pairs[1].pred_annot.annot = matched_pairs[2].pred_annot.annot
    /\ perm_matched_pairs[1].pred_annot.annot # matched_pairs[1].pred_annot.annot

(***************************************************************************)
(* The image entries of <category>.gt.json against the files under         *)
(* <category>/raw after a run of copy_error_images and                     *)
(* save_coco_for_category.                                                 *)
(***************************************************************************)
\* the gt images a category's JSON was filtered from, in input order
SourcesOf(category) ==
    LET ipos == Ordered(ImagesIn(gt_images, image_ids_of(CatList(category))))
    IN  [k \in DOMAIN ipos |-> gt_images[ipos[k]]]

\* entry k of <category>.gt.json points to a copy of the source file of the image
\* it was made from
PointsToOwnCopy(category, k) ==
    LET entry == out_fs[JsonPath(category, "gt.json")].doc.images[k]
    IN  /\ entry.file_name \in DOMAIN out_fs
        /\ out_fs[entry.file_name] = CopyOf(SourcesOf(category)[k].file_name)

\* C28: after a materializing run, every image entry of <category>.gt.json points,
\* through its file_name <category>/raw/<basename>, to a file of the output tree
\* that is a copy of that image's own source file.
C28_JsonPointsToOwnCopy ==
    pc = "finished" =>
        \A c \in CategorySet :
            IsJson(JsonPath(c, "gt.json")) =>
                \A k \in DOMAIN out_fs[JsonPath(c, "gt.json")].doc.images :
                    PointsToOwnCopy(c, k)

\* the entries whose image was copied, under an id and a basename that no other
\* gt image has, do point to their own copy
CopiedAlone(category, k) ==
    LET img == SourcesOf(category)[k]
    IN  /\ \E e \in EventsOf(category) :
              /\ events[e].image_id = img.id
              /\ events[e].copy = "ok"
        /\ \A j \in DOMAIN gt_images :
              gt_images[j] # img =>
                  /\ gt_images[j].id # img.id
                  /\ basename(gt_images[j].file_name) # basename(img.file_name)

JsonPointsToOwnCopyWhenCopiedAlone ==
    pc = "finished" =>
        \A c \in CategorySet :
            IsJson(JsonPath(c, "gt.json")) =>
                \A k \in DOMAIN out_fs[JsonPath(c, "gt.json")].doc.images :
                    CopiedAlone(c, k) => PointsToOwnCopy(c, k)

(***************************************************************************)
(* _assign_unique_ids_if_needed (tools/check_and_complete.py), called by   *)
(* check_and_complete_coco_from_file after every item was given an "id"    *)
(* (0 when it had none).  An image and a category are [id], an annotation  *)
(* is [id, image_id, category_id].  before_images, before_annots and       *)
(* before_cats keep the lists as they were passed.                         *)
(***************************************************************************)
AssignIds == 0..MaxAssignId

AssignItems == [id : AssignIds]

AssignAnnots == [id : AssignIds, image_id : AssignIds, category_id : {0, 1}]

\* lines 140-149: the scan for a repeated id, from position k on; it stops at the
\* first repetition
RECURSIVE scan_ids(_, _, _)
scan_ids(items, k, seen) ==
    IF k > Len(items) THEN [need_reassign |-> FALSE, seen |-> seen]
    ELSE IF items[k].id \in seen THEN [need_reassign |-> TRUE, seen |-> seen]
    ELSE scan_ids(items, k + 1, seen \cup {items[k].id})

\* "if 0 in seen: need_reassign = True"
zero_seen(seen) == 0 \in seen

\* lines 151-153: it[key] = idx for idx from 1
renumbered(items) == [k \in DOMAIN items |-> [items[k] EXCEPT !.id = k]]

ensure_unique(items) ==
    LET scan == scan_ids(items, 1, {})
    IN  IF scan.need_reassign \/ zero_seen(scan.seen)
        THEN renumbered(items)
        ELSE items

InitAssign ==
    /\ pc = "assign_call"
    /\ id_images \in SeqsUpTo(AssignItems, 2)
    /\ id_cats \in SeqsUpTo(AssignItems, 1)
    /\ id_annots \in SeqsUpTo(AssignAnnots, 2)
    /\ before_images = id_images
    /\ before_cats = id_cats
    /\ before_annots = id_annots
    /\ MatchIdle
    /\ AnalysisIdle
    /\ IouIdle
    /\ MainIdle
    /\ RunIdle
    /\ PermIdle
    /\ MergeIdle
    /\ ExcludeIdle

CallAssignUniqueIds ==
    /\ pc = "assign_call"
    /\ pc' = "assign_return"
    /\ id_images' = ensure_unique(id_images)
    /\ id_cats' = ensure_unique(id_cats)
    /\ id_annots' = ensure_unique(id_annots)
    /\ UNCHANGED <<before_images, before_annots, before_cats, match_vars,
                   analysis_vars, iou_vars, main_vars, run_vars, perm_vars,
                   merge_vars, exclude_vars>>

NextAssign == CallAssignUniqueIds

SpecAssign == InitAssign /\ [][NextAssign]_vars

AssignReturned == pc = "assign_return"

UniqueNonZero(items) == UniqueIds(items) /\ \A k \in DOMAIN items : items[k].id # 0

\* a list whose ids are unique and non-zero is left as it was
LeftUnchanged(before, after) == UniqueNonZero(before) => after = before

\* the ids of any other list become 1..n in list order, nothing else changes
Renumbered(before, after) ==
    ~UniqueNonZero(before) =>
        /\ Len(after) = Len(before)
        /\ \A k \in DOMAIN after : after[k] = [before[k] EXCEPT !.id = k]

\* the positions of the items of a list that carry the id
Identified(items, id) == {k \in DOMAIN items : items[k].id = id}

\* an annotation whose image_id (category_id) was the id of exactly one image
\* (category) before the call has the id of that image (category), and of no other,
\* after it
ReferencesIntact ==
    \A k \in DOMAIN before_annots :
        /\ Cardinality(Identified(before_images, before_annots[k].image_id)) = 1 =>
               Identified(id_images, id_annots[k].image_id) =
                   Identified(before_images, before_annots[k].image_id)
        /\ Cardinality(Identified(before_cats, before_annots[k].category_id)) = 1 =>
               Identified(id_cats, id_annots[k].category_id) =
                   Identified(before_cats, before_annots[k].category_id)

\* C29: _assign_unique_ids_if_needed leaves lists whose ids are unique and non-zero
\* unchanged, gives the items of any other list the ids 1..n in list order, and
\* after the call every annotation's image_id and category_id identify the image
\* and the category they identified before the call.
C29_AssignKeepsReferences ==
    AssignReturned =>
        /\ LeftUnchanged(before_images, id_images)
        /\ LeftUnchanged(before_cats, id_cats)
        /\ LeftUnchanged(before_annots, id_annots)
        /\ Renumbered(before_images, id_images)
        /\ Renumbered(before_cats, id_cats)
        /\ Renumbered(before_annots, id_annots)
        /\ ReferencesIntact

\* the two parts about the ids themselves, which do hold
AssignOnlyWhenNeeded ==
    AssignReturned =>
        /\ LeftUnchanged(before_images, id_images)
        /\ LeftUnchanged(before_cats, id_cats)
        /\ LeftUnchanged(before_annots, id_annots)
        /\ Renumbered(before_images, id_images)
        /\ Renumbered(before_cats, id_cats)
        /\ Renumbered(before_annots, id_annots)

====
